---- MODULE Spec2Model ----
(***************************************************************************)
(* Stateful transform operators of RxIt (transform.ts): bufferToggle,      *)
(* buffer and reduce, as generator state machines.                         *)
(*                                                                         *)
(* A generator is modelled by its position (pc), the variables of the      *)
(* factory call that created it (closure), the variables of the generator  *)
(* body (locals), the upstream iterable (it) with the number of elements   *)
(* the for-of loop has pulled so far (pulled) and the values it has        *)
(* yielded (out).  trace is a history of the upstream pulls, the calls of  *)
(* the user's callbacks with their arguments and results, and the yields.  *)
(* A callback of the user is an arbitrary function: its result is chosen   *)
(* at every call and recorded in trace.                                    *)
(***************************************************************************)
EXTENDS Integers, Sequences, FiniteSets, TLC

VARIABLES it, pulled, out, pc, closure, locals, trace

vars == <<it, pulled, out, pc, closure, locals, trace>>

\* ---------------------------------------------------------------- bounds
\* longest upstream given to bufferToggle
MaxLenToggle == 3
\* longest upstream given to buffer
MaxLenBuffer == 3
\* longest upstream given to reduce
MaxLenReduce == 2
\* the number of upstreams one reduce operator is applied to
MaxApplications == 2

\* upstream sequences of length 0..n over the elements vals
SeqsUpTo(vals, n) == UNION {[1..k -> vals] : k \in 0..n}

\* the elements of the upstreams of buffer
BufferValues == {2, 3}

\* the elements of the upstreams of bufferToggle
ToggleValues == {2, 3}

ToggleUpstreams == SeqsUpTo(ToggleValues, MaxLenToggle)

\* ------------------------------------------------------------ bufferToggle
\* `null`, the content of a queue slot whose buffer was emitted
Null == [null |-> TRUE]

IsNull(slot) == DOMAIN slot = {"null"}

\* what `open(el, i)` can return: false, true or a close function
OpenResults == {"false", "true", "close"}

\* a buffer opened by true given a close function that may return true
CloseOfUser(shouldOpen) == "user"

\* the close predicate of a new buffer: `() => false` when open returned
\* true, the returned function otherwise
CloseOf(shouldOpen) == IF shouldOpen = "true" THEN "never" ELSE "user"

\* a close predicate that returns true where `() => false` is meant
CloseResultsAlways(close) == IF close = "never" THEN {TRUE} ELSE BOOLEAN

\* what `subBuffer.close(el, i, state)` can return
CloseResults(close) == IF close = "never" THEN {FALSE} ELSE BOOLEAN

\* the element put in front of the buffer instead of behind it
ConcatFront(state, el) == <<el>> \o state

\* `state.concat([el])`
Concat(state, el) == Append(state, el)

\* the new buffer put in front of the queue (unshift for push)
PushBufferFront(buffers, close, i) ==
    <<[state |-> <<>>, close |-> close, openedAt |-> i]>> \o buffers

\* `buffers.push({ state: [], close })`; openedAt is the index of the element
\* that opened the buffer (history, not read by the code)
PushBuffer(buffers, close, i) ==
    Append(buffers, [state |-> <<>>, close |-> close, openedAt |-> i])

\* the slot of an emitted buffer left as it is
NullSlotKept(buffers, j) == buffers

\* `buffers[j] = null` (j counted from 1 here)
NullSlot(buffers, j) == [buffers EXCEPT ![j] = Null]

\* one leading null removed only (`if` for `while`)
ShiftNullsOnce(buffers) ==
    IF buffers # <<>> /\ IsNull(Head(buffers)) THEN Tail(buffers) ELSE buffers

\* `while (buffers[0] === null) buffers.shift()`
RECURSIVE ShiftNulls(_)
ShiftNulls(buffers) ==
    IF buffers # <<>> /\ IsNull(Head(buffers))
    THEN ShiftNulls(Tail(buffers))
    ELSE buffers

PullEvent(el) == [ev |-> "pull", buf |-> -1, args |-> <<el>>, ret |-> "none"]
OpenEvent(el, i, r) == [ev |-> "open", buf |-> -1, args |-> <<el, i>>, ret |-> r]
BoolStr(r) == IF r THEN "true" ELSE "false"
CloseEvent(b, el, i, state, r) ==
    [ev |-> "close", buf |-> b, args |-> <<el, i, state>>, ret |-> BoolStr(r)]
YieldEvent(b, v) == [ev |-> "yield", buf |-> b, args |-> <<v>>, ret |-> "none"]

bufferToggleInit ==
    /\ it \in ToggleUpstreams
    /\ pulled = 0
    /\ out = <<>>
    /\ pc = "for"
    /\ closure = [op |-> "bufferToggle"]
    /\ locals = [buffers |-> <<>>, i |-> 0, j |-> 0, el |-> 0]
    /\ trace = <<>>

\* `for (const el of it)`: the next element, `open(el, i)` and the push
bufferToggleOpen ==
    /\ pc = "for"
    /\ pulled < Len(it)
    /\ LET el == it[pulled + 1] IN
       \E shouldOpen \in OpenResults :
          /\ locals' = [locals EXCEPT
                  !.el = el,
                  !.j = 0,
                  !.buffers = IF shouldOpen # "false"
                              THEN PushBuffer(@, CloseOf(shouldOpen), locals.i)
                              ELSE @]
          /\ trace' = trace \o <<PullEvent(el), OpenEvent(el, locals.i, shouldOpen)>>
    /\ pulled' = pulled + 1
    /\ pc' = "inner"
    /\ UNCHANGED <<it, out, closure>>

\* one pass of `for (let j = 0; j < buffers.length; j++)`
bufferToggleInner ==
    /\ pc = "inner"
    /\ locals.j < Len(locals.buffers)
    /\ LET j == locals.j + 1
           subBuffer == locals.buffers[j]
       IN IF IsNull(subBuffer)
          THEN /\ locals' = [locals EXCEPT !.j = @ + 1]
               /\ UNCHANGED <<out, trace>>
          ELSE LET state == Concat(subBuffer.state, locals.el) IN
               \E r \in CloseResults(subBuffer.close) :
                  /\ trace' = trace \o
                        <<CloseEvent(subBuffer.openedAt, locals.el, locals.i, state, r)>>
                        \o (IF r THEN <<YieldEvent(subBuffer.openedAt, state)>> ELSE <<>>)
                  /\ out' = IF r THEN Append(out, state) ELSE out
                  /\ locals' = [locals EXCEPT
                        !.j = @ + 1,
                        !.buffers = IF r THEN NullSlot([@ EXCEPT ![j].state = state], j)
                                    ELSE [@ EXCEPT ![j].state = state]]
    /\ UNCHANGED <<it, pulled, pc, closure>>

\* the end of the loop body: `i += 1` and the removal of leading nulls
bufferToggleNext ==
    /\ pc = "inner"
    /\ locals.j >= Len(locals.buffers)
    /\ locals' = [locals EXCEPT !.i = @ + 1, !.buffers = ShiftNulls(@)]
    /\ pc' = "for"
    /\ UNCHANGED <<it, pulled, out, closure, trace>>

\* upstream is exhausted: `if (buffers.length) for (const subBuffer of buffers)`
bufferToggleExhausted ==
    /\ pc = "for"
    /\ pulled = Len(it)
    /\ locals' = [locals EXCEPT !.j = 0]
    /\ pc' = "flush"
    /\ UNCHANGED <<it, pulled, out, closure, trace>>

\* one pass of the final loop: `if (subBuffer !== null) yield subBuffer.state`
bufferToggleFlush ==
    /\ pc = "flush"
    /\ locals.j < Len(locals.buffers)
    /\ LET subBuffer == locals.buffers[locals.j + 1] IN
       IF IsNull(subBuffer)
       THEN UNCHANGED <<out, trace>>
       ELSE /\ out' = Append(out, subBuffer.state)
            /\ trace' = Append(trace, YieldEvent(subBuffer.openedAt, subBuffer.state))
    /\ locals' = [locals EXCEPT !.j = @ + 1]
    /\ UNCHANGED <<it, pulled, pc, closure>>

bufferToggleDone ==
    /\ pc = "flush"
    /\ locals.j >= Len(locals.buffers)
    /\ pc' = "done"
    /\ UNCHANGED <<it, pulled, out, closure, locals, trace>>

bufferToggleNextStep ==
    \/ bufferToggleOpen
    \/ bufferToggleInner
    \/ bufferToggleNext
    \/ bufferToggleExhausted
    \/ bufferToggleFlush
    \/ bufferToggleDone

SpecBufferToggle == bufferToggleInit /\ [][bufferToggleNextStep]_vars

\* ------------------------------------------------- bufferToggle: properties
Events(kind) == {p \in 1..Len(trace) : trace[p].ev = kind}

\* the indices at which open returned true or a close function
OpenedAt == {trace[p].args[2] : p \in {q \in Events("open") : trace[q].ret # "false"}}

\* the indices at which the close predicate of the buffer opened at o was
\* called before position p of the history, and those where it returned true
CloseCalls(o, p) ==
    {trace[q].args[2] : q \in {r \in Events("close") : r < p /\ trace[r].buf = o}}
CloseTrue(o, p) ==
    {trace[q].args[2] : q \in {r \in Events("close") :
                                 r < p /\ trace[r].buf = o /\ trace[r].ret = "true"}}

\* the upstream index at which the buffer yielded at position p was emitted:
\* the index of the close call that returned true just before, or Len(it)
\* for a buffer emitted after the end of the input
EmitIndex(p) ==
    IF trace[p - 1].ev = "close" /\ trace[p - 1].ret = "true"
    THEN trace[p - 1].args[2]
    ELSE Len(it)

\* the elements at the 0-based indices o..c of the upstream
Slice(o, c) == SubSeq(it, o + 1, c + 1)

\* the number of elements appended so far to the slot at position k of the queue
AppendedUpTo(k) == IF pc = "inner" /\ k > locals.j THEN pulled - 1 ELSE pulled

\* C1: every emitted buffer is the contiguous slice S[o..c] of the upstream,
\* where open returned true or a close function at o and c is the first
\* index >= o at which the buffer's close predicate returned true, or the
\* last index when it never did (open is called with the element and its
\* index); the opening element is the first element
\* of the buffer, and every open buffer holds every element since its opening.
C1_BufferIsSlice ==
    /\ \A p \in Events("open") :
          trace[p].args = <<it[trace[p].args[2] + 1], trace[p].args[2]>>
    /\ \A p \in Events("yield") :
          LET o == trace[p].buf
              v == trace[p].args[1]
              closed == CloseTrue(o, p)
          IN /\ o \in OpenedAt
             /\ v # <<>> /\ v[1] = it[o + 1]
             /\ IF closed # {}
                THEN \E c \in closed :
                        /\ closed = {c}
                        /\ c >= o
                        /\ CloseCalls(o, p) = o..c
                        /\ v = Slice(o, c)
                ELSE /\ pulled = Len(it)
                     /\ v = Slice(o, Len(it) - 1)
    /\ \A k \in 1..Len(locals.buffers) :
          LET b == locals.buffers[k] IN
          ~IsNull(b) => b.state = Slice(b.openedAt, AppendedUpTo(k) - 1)

\* a run in which a buffer closed by its predicate after two elements and a
\* buffer overlapping it was emitted at the end of the input
C1_Witness ==
    /\ pc = "done"
    /\ \E p, q \in Events("yield") :
          /\ EmitIndex(p) = trace[p].buf + 1
          /\ Len(trace[p].args[1]) = 2
          /\ EmitIndex(q) = Len(it)
          /\ trace[q].buf <= trace[p].buf
          /\ Len(trace[q].args[1]) = 3

\* C2: buffers are emitted in the order of the elements that close them;
\* buffers closed by the same element are emitted in their opening order;
\* the buffers still open at the end of the input come last, in their
\* opening order.
C2_EmissionOrder ==
    \A p, q \in Events("yield") :
       p < q => /\ EmitIndex(p) <= EmitIndex(q)
                /\ EmitIndex(p) = EmitIndex(q) => trace[p].buf < trace[q].buf

\* a run in which two buffers were closed by the same element and a third
\* one, opened between them or after them, was emitted at the end of the input
C2_Witness ==
    /\ pc = "done"
    /\ \E p, q, r \in Events("yield") :
          /\ p < q /\ q < r
          /\ EmitIndex(p) = EmitIndex(q)
          /\ EmitIndex(q) < Len(it)
          /\ EmitIndex(r) = Len(it)

\* the buffers the queue still holds
OpenBuffers ==
    {locals.buffers[k].openedAt :
        k \in {n \in 1..Len(locals.buffers) : ~IsNull(locals.buffers[n])}}

\* C3: every opened buffer is emitted exactly once: no buffer is emitted
\* twice, an emitted buffer is in the queue no more (nothing is appended to
\* it) and its close predicate is not called again, and after the end of
\* the input as many buffers were emitted as open returned a non-false value.
C3_EmittedOnce ==
    /\ \A p, q \in Events("yield") : trace[p].buf = trace[q].buf => p = q
    /\ \A p \in Events("yield") :
          /\ (pc \in {"for", "inner"} => trace[p].buf \notin OpenBuffers)
          /\ \A q \in Events("close") : q > p => trace[q].buf # trace[p].buf
    /\ pc = "done" =>
          /\ Cardinality(Events("yield")) = Cardinality(OpenedAt)
          /\ Len(out) = Cardinality(OpenedAt)

\* a buffer was emitted by its close predicate, later elements were processed
\* with other buffers open, and the input has ended
C3_Witness ==
    /\ pc = "done"
    /\ Len(it) = 3
    /\ \E p \in Events("yield") : EmitIndex(p) = 0
    /\ \E p \in Events("yield") : trace[p].buf = 1 /\ EmitIndex(p) = 2
    /\ \E p \in Events("yield") : trace[p].buf = 2 /\ EmitIndex(p) = 3

OpenAlways(r) ==
    /\ Cardinality(Events("open")) = Len(it)
    /\ \A p \in Events("open") : trace[p].ret = r

\* every non-empty suffix of the upstream, the longest first
Suffixes == [k \in 1..Len(it) |-> SubSeq(it, k, Len(it))]

\* C4: with an open function that always returns true, nothing is emitted
\* before the end of the input and then every non-empty suffix of the upstream
\* is, the longest first; with one that always returns false, nothing is.
C4_AlwaysTrueAlwaysFalse ==
    /\ (\A p \in Events("open") : trace[p].ret = "true") =>
          (pc \in {"for", "inner"} => out = <<>>)
    /\ pc = "done" /\ OpenAlways("true") => out = Suffixes
    /\ pc = "done" /\ OpenAlways("false") => out = <<>>

\* open returned true for each of three elements, and the input has ended
C4_Witness ==
    /\ pc = "done"
    /\ Len(it) = 3
    /\ OpenAlways("true")
    /\ Len(out) = 3

\* ------------------------------------------------------------------ buffer
\* the close parameter: its default `() => false`, or a function of the user
BufferCloses == {"never", "user"}

\* the final buffer emitted whatever its length
bufferRemainderAlways(state) == TRUE

\* `if (state.length)` after the loop
bufferRemainder(state) == Len(state) # 0

\* the active buffer kept after it was emitted
bufferAfterCloseKept(state, r) == state

\* `if (close(el, i, state)) { yield state; state = []; }`: the active buffer
\* after the close call returned r
bufferAfterClose(state, r) == IF r THEN <<>> ELSE state

bufferInit ==
    /\ it \in SeqsUpTo(BufferValues, MaxLenBuffer)
    /\ pulled = 0
    /\ out = <<>>
    /\ pc = "for"
    /\ \E close \in BufferCloses : closure = [op |-> "buffer", close |-> close]
    /\ locals = [state |-> <<>>, i |-> 0]
    /\ trace = <<>>

\* one pass of `for (const el of it)`
bufferStep ==
    /\ pc = "for"
    /\ pulled < Len(it)
    /\ LET el == it[pulled + 1]
           state == Concat(locals.state, el)
       IN \E r \in CloseResults(closure.close) :
             /\ trace' = trace \o
                   <<PullEvent(el), CloseEvent(-1, el, locals.i, state, r)>>
                   \o (IF r THEN <<YieldEvent(-1, state)>> ELSE <<>>)
             /\ out' = IF r THEN Append(out, state) ELSE out
             /\ locals' = [state |-> bufferAfterClose(state, r), i |-> locals.i + 1]
    /\ pulled' = pulled + 1
    /\ UNCHANGED <<it, pc, closure>>

\* upstream is exhausted: `if (state.length) yield state`
bufferExhausted ==
    /\ pc = "for"
    /\ pulled = Len(it)
    /\ IF bufferRemainder(locals.state)
       THEN /\ out' = Append(out, locals.state)
            /\ trace' = Append(trace, YieldEvent(-1, locals.state))
       ELSE UNCHANGED <<out, trace>>
    /\ pc' = "done"
    /\ UNCHANGED <<it, pulled, closure, locals>>

bufferNextStep ==
    \/ bufferStep
    \/ bufferExhausted

SpecBuffer == bufferInit /\ [][bufferNextStep]_vars

\* ------------------------------------------------------- buffer: properties
\* the calls of close, in the order they were made
CloseSeq == SelectSeq(trace, LAMBDA e : e.ev = "close")

\* the 0-based index of the first element of the buffer that is active when
\* the element at 0-based index k arrives: the index after the last element
\* before k at which close returned true
ActiveStart(k) ==
    LET trues == {m \in 1..k : m <= Len(CloseSeq) /\ CloseSeq[m].ret = "true"}
    IN IF trues = {} THEN 0 ELSE CHOOSE m \in trues : \A n \in trues : n <= m

\* the 1-based positions in CloseSeq of the calls that returned true
ClosedAt == {m \in 1..Len(CloseSeq) : CloseSeq[m].ret = "true"}

RECURSIVE Flatten(_)
Flatten(ss) == IF ss = <<>> THEN <<>> ELSE Head(ss) \o Flatten(Tail(ss))

\* C5: close is called once per element, in order, with the element, its
\* 0-based index and the active buffer including the element; a buffer is
\* emitted at exactly the elements where close returned true, and the
\* non-empty remainder at exhaustion; the emitted buffers concatenated are
\* the upstream.
C5_BufferPartition ==
    /\ Len(CloseSeq) = pulled
    /\ \A k \in 1..Len(CloseSeq) :
          CloseSeq[k].args = <<it[k], k - 1, Slice(ActiveStart(k - 1), k - 1)>>
    /\ \A n \in 1..Len(out) :
          \/ \E k \in ClosedAt :
                /\ Cardinality({m \in ClosedAt : m <= k}) = n
                /\ out[n] = Slice(ActiveStart(k - 1), k - 1)
          \/ /\ pc = "done"
             /\ n = Cardinality(ClosedAt) + 1
             /\ out[n] = Slice(ActiveStart(Len(it)), Len(it) - 1)
    /\ Len(out) = Cardinality(ClosedAt)
                  + (IF pc = "done" /\ ActiveStart(Len(it)) < Len(it) THEN 1 ELSE 0)
    /\ pc = "done" => Flatten(out) = it

\* close returned true at the first of three elements and false afterwards,
\* so a buffer of one element and a remainder of two were emitted
C5_Witness ==
    /\ pc = "done"
    /\ closure.close = "user"
    /\ Len(it) = 3
    /\ ClosedAt = {1}
    /\ Len(out) = 2

undefined == 0

\* `const unused = Symbol('No value was set')`: equal to no value of the user
unused == -1

\* the elements of the upstreams of reduce, and the initial values
ReduceValues == {undefined, 1, 2}

\* the reducers `fn` of the user: three functions on ReduceValues
ReduceFns == {"acc", "curr", "add"}

\* `fn(acc, el)`
Apply(fn, acc, el) ==
    CASE fn = "acc" -> acc
      [] fn = "curr" -> el
      [] fn = "add" -> (acc + el) % 3

\* the argument lists of `reduce(...args)`: [fn] or [fn, initial]
ReduceArgs ==
    {<<fn>> : fn \in ReduceFns}
        \cup {<<fn, initial>> : fn \in ReduceFns, initial \in ReduceValues}

\* `args.length === 2 ? args[1] : unused`
InitialAcc(args) == IF Len(args) = 2 THEN args[2] ELSE unused

\* the body of the loop: `if (acc === unused) acc = el; else acc = fn(acc, el)`
ReduceBody(fn, acc, el) == IF acc = unused THEN el ELSE Apply(fn, acc, el)

FnEvent(acc, el, r) == [ev |-> "fn", buf |-> -1, args |-> <<acc, el>>, ret |-> r]

\* `reduce(...args)` has returned the operator; it is applied to no upstream yet
reduceInit ==
    /\ it = <<>>
    /\ pulled = 0
    /\ out = <<>>
    /\ pc = "operator"
    /\ \E args \in ReduceArgs :
          closure = [op |-> "reduce", args |-> args, acc |-> InitialAcc(args)]
    /\ locals = [application |-> 0]
    /\ trace = <<>>

\* the operator is applied to an upstream and the result is iterated; the
\* operator of one `reduce` call can be applied again once the previous
\* result was consumed
reduceApply ==
    /\ pc \in {"operator", "done"}
    /\ locals.application < MaxApplications
    /\ it' \in SeqsUpTo(ReduceValues, MaxLenReduce)
    /\ pulled' = 0
    /\ out' = <<>>
    /\ pc' = "for"
    /\ locals' = [application |-> locals.application + 1]
    /\ trace' = <<>>
    /\ UNCHANGED closure

\* one pass of `for (const el of it)`
reduceStep ==
    /\ pc = "for"
    /\ pulled < Len(it)
    /\ LET el == it[pulled + 1]
           fn == closure.args[1]
           acc == ReduceBody(fn, closure.acc, el)
       IN /\ closure' = [closure EXCEPT !.acc = acc]
          /\ trace' = trace \o <<PullEvent(el)>>
                \o (IF closure.acc = unused THEN <<>>
                    ELSE <<FnEvent(closure.acc, el, acc)>>)
    /\ pulled' = pulled + 1
    /\ UNCHANGED <<it, out, pc, locals>>

\* upstream is exhausted: `if (acc !== unused) yield acc`
reduceExhausted ==
    /\ pc = "for"
    /\ pulled = Len(it)
    /\ IF closure.acc # unused
       THEN /\ out' = Append(out, closure.acc)
            /\ trace' = Append(trace, YieldEvent(-1, closure.acc))
       ELSE UNCHANGED <<out, trace>>
    /\ pc' = "done"
    /\ UNCHANGED <<it, pulled, closure, locals>>

reduceNextStep ==
    \/ reduceApply
    \/ reduceStep
    \/ reduceExhausted

SpecReduce == reduceInit /\ [][reduceNextStep]_vars

\* ------------------------------------------------------- reduce: properties
\* the calls of fn during the current application, in the order they were made
FnSeq == SelectSeq(trace, LAMBDA e : e.ev = "fn")

\* the left fold of s by fn from the seed acc
RECURSIVE FoldLeft(_, _, _)
FoldLeft(fn, acc, s) ==
    IF s = <<>> THEN acc ELSE FoldLeft(fn, Apply(fn, acc, Head(s)), Tail(s))

\* the loop of the generator run over s from the accumulator acc
RECURSIVE RunBody(_, _, _)
RunBody(fn, acc, s) ==
    IF s = <<>> THEN acc ELSE RunBody(fn, ReduceBody(fn, acc, Head(s)), Tail(s))

\* what the operator of a new call `reduce(...args)` emits for the upstream s
FreshOutput(args, s) ==
    LET acc == RunBody(args[1], InitialAcc(args), s)
    IN IF acc # unused THEN <<acc>> ELSE <<>>

\* what C8 says of a completed application of reduce(...args) to `it`
LeftFoldResult(args) ==
    LET fn == args[1]
        n == Len(it)
    IN IF Len(args) = 2
       THEN /\ out = <<FoldLeft(fn, args[2], it)>>
            /\ Len(FnSeq) = n
            /\ n > 0 => FnSeq[1].args = <<args[2], it[1]>>
       ELSE IF n = 0
       THEN out = <<>> /\ FnSeq = <<>>
       ELSE /\ out = <<FoldLeft(fn, it[1], Tail(it))>>
            /\ Len(FnSeq) = n - 1
            /\ n > 1 => FnSeq[1].args = <<it[1], it[2]>>

\* C8: reduce emits one value if the upstream is non-empty or an initial
\* value was given and nothing otherwise; the value is the left fold of the
\* upstream, seeded with the first element and with length - 1 calls of fn
\* without an initial value, with length calls starting with fn(initial,
\* first) otherwise; fn never gets the unset sentinel, and the accumulator
\* is not unset once it has held a value.
C8_ReduceLeftFold ==
    /\ \A p \in Events("fn") : trace[p].args[1] # unused
    /\ pulled > 0 => closure.acc # unused
    /\ pc = "done" => LeftFoldResult(closure.args)

\* a first application of reduce(fn) to two elements has completed with one
\* call of fn (the claim's case where the code agrees with it)
reduceFirstApplicationReached ==
    /\ pc = "done"
    /\ locals.application = 1
    /\ Len(closure.args) = 1
    /\ Len(it) = 2
    /\ Len(FnSeq) = 1
    /\ Len(out) = 1

\* C9: reduce(fn, undefined) emits undefined on an empty upstream and starts
\* with fn(undefined, first) on a non-empty one; without an initial value an
\* upstream element that is undefined is the seed like any other value.
C9_UndefinedInitial ==
    /\ pc = "done" /\ Len(closure.args) = 2 /\ closure.args[2] = undefined
          /\ it = <<>> => out = <<undefined>>
    /\ Len(closure.args) = 2 /\ closure.args[2] = undefined /\ pulled >= 1 =>
          FnSeq # <<>> /\ FnSeq[1].args = <<undefined, it[1]>>
    /\ Len(closure.args) = 1 /\ pulled >= 2 /\ it[1] = undefined =>
          FnSeq # <<>> /\ FnSeq[1].args = <<undefined, it[2]>>
    /\ Len(closure.args) = 1 /\ pc = "done" /\ it # <<>> =>
          out = <<FoldLeft(closure.args[1], it[1], Tail(it))>>

\* C10: the operator of one reduce call, applied to a second upstream after
\* the result for a first one was consumed, emits for the second upstream
\* what the operator of a new reduce call emits for it.
C10_NoStateAcrossApplications ==
    pc = "done" /\ locals.application >= 2 =>
        out = FreshOutput(closure.args, it)

\* The first application of an operator: the accumulator is the one the
\* reduce call has set, and C8, C9 and the output of a new operator hold.
reduceFirstApplication ==
    locals.application <= 1 =>
        /\ C8_ReduceLeftFold
        /\ C9_UndefinedInitial
        /\ pc = "done" => out = FreshOutput(closure.args, it)

\* The accumulator outlives the application: a later application starts
\* from the result of the one before it.
reduceAccumulatorKept ==
    [][pc = "done" /\ pc' = "for" => closure'.acc = closure.acc]_vars

\* ------------------------------------------------------------ unwrapReduce
\* the number of upstreams one unwrapReduce function is applied to
MaxUnwrapCalls == 2
\* longest upstream given to unwrapReduce
MaxLenUnwrap == 2

\* `new TypeError('No values to unwrap.')`
NoValuesToUnwrap == "TypeError: No values to unwrap."

\* `new Error('Internal Error: unwrapReduce assumptions wrong.')`
AssumptionsWrong == "Error: Internal Error: unwrapReduce assumptions wrong."

\* unwrap: `result.length === 0`
unwrapIsEmpty(result) == Len(result) = 0

\* unwrapReduce: `reduced === undefined || reduced.length !== 1`; reduced is
\* the array unwrap has returned
unwrapReduceIsWrong(reduced) == Len(reduced) # 1

\* `unwrapReduce(...args)` has returned the function; it is applied to no
\* upstream yet
unwrapReduceInit ==
    /\ it = <<>>
    /\ pulled = 0
    /\ out = <<>>
    /\ pc = "function"
    /\ \E args \in ReduceArgs :
          closure = [op |-> "unwrapReduce", args |-> args, acc |-> unused]
    /\ locals = [application |-> 0, state |-> <<>>, result |-> <<>>,
                 reduced |-> <<>>, error |-> "none"]
    /\ trace = <<>>

\* the function is applied to an upstream: `reduce(args[0])(it)` or
\* `reduce(args[0], args[1])(it)` makes a new operator, whose accumulator is
\* the closure's acc, and `unwrap()` starts to spread `buffer()` of its result
unwrapReduceApply ==
    /\ pc \in {"function", "returned", "thrown"}
    /\ locals.application < MaxUnwrapCalls
    /\ it' \in SeqsUpTo(ReduceValues, MaxLenUnwrap)
    /\ pulled' = 0
    /\ out' = <<>>
    /\ pc' = "reduce"
    /\ closure' = [closure EXCEPT !.acc = InitialAcc(closure.args)]
    /\ locals' = [application |-> locals.application + 1, state |-> <<>>,
                  result |-> <<>>, reduced |-> <<>>, error |-> "none"]
    /\ trace' = <<>>

\* reduce: one pass of `for (const el of it)`
unwrapReduceStep ==
    /\ pc = "reduce"
    /\ pulled < Len(it)
    /\ LET el == it[pulled + 1]
           acc == ReduceBody(closure.args[1], closure.acc, el)
       IN /\ closure' = [closure EXCEPT !.acc = acc]
          /\ trace' = trace \o <<PullEvent(el)>>
                \o (IF closure.acc = unused THEN <<>>
                    ELSE <<FnEvent(closure.acc, el, acc)>>)
    /\ pulled' = pulled + 1
    /\ UNCHANGED <<it, out, pc, locals>>

\* reduce: `if (acc !== unused) yield acc`, and buffer's loop body for the
\* yielded value: `state = state.concat([el])` with the default close
unwrapReduceExhausted ==
    /\ pc = "reduce"
    /\ pulled = Len(it)
    /\ locals' = [locals EXCEPT
          !.state = IF closure.acc # unused
                    THEN bufferAfterClose(Concat(@, closure.acc), FALSE)
                    ELSE @]
    /\ pc' = "buffer"
    /\ UNCHANGED <<it, pulled, out, closure, trace>>

\* buffer: `if (state.length) yield state`; unwrap: `[...buffer()(it)]`
unwrapBuffer ==
    /\ pc = "buffer"
    /\ locals' = [locals EXCEPT
          !.result = IF bufferRemainder(locals.state) THEN <<locals.state>> ELSE <<>>]
    /\ pc' = "unwrap"
    /\ UNCHANGED <<it, pulled, out, closure, trace>>

\* unwrap: `if (result.length === 0) throw new TypeError(...)`, else
\* `return result[0]`; the error leaves unwrapReduce as it is
unwrapReturn ==
    /\ pc = "unwrap"
    /\ IF unwrapIsEmpty(locals.result)
       THEN /\ locals' = [locals EXCEPT !.error = NoValuesToUnwrap]
            /\ pc' = "thrown"
       ELSE /\ locals' = [locals EXCEPT !.reduced = locals.result[1]]
            /\ pc' = "unwrapReduce"
    /\ UNCHANGED <<it, pulled, out, closure, trace>>

\* unwrapReduce: the check of its assumptions and `return reduced[0]`
unwrapReduceReturn ==
    /\ pc = "unwrapReduce"
    /\ IF unwrapReduceIsWrong(locals.reduced)
       THEN /\ locals' = [locals EXCEPT !.error = AssumptionsWrong]
            /\ pc' = "thrown"
            /\ out' = out
       ELSE /\ out' = <<locals.reduced[1]>>
            /\ pc' = "returned"
            /\ locals' = locals
    /\ UNCHANGED <<it, pulled, closure, trace>>

unwrapReduceNextStep ==
    \/ unwrapReduceApply
    \/ unwrapReduceStep
    \/ unwrapReduceExhausted
    \/ unwrapBuffer
    \/ unwrapReturn
    \/ unwrapReduceReturn

SpecUnwrapReduce == unwrapReduceInit /\ [][unwrapReduceNextStep]_vars

MaxLenRepeat == 2
\* the largest count given to repeat
MaxCount == 3
\* the number of replay passes the consumer lets an endless repeat start
MaxPasses == 3

\* the elements of the upstreams of repeat
RepeatValues == {1, 2}

\* the argument lists of `repeat(countRepeats?)`: [] when the count is
\* omitted (countRepeats is undefined), [n] otherwise
RepeatArgs == {<<>>} \cup {<<n>> : n \in -2..MaxCount}

\* the early return taken for no count
repeatIsZeroNever(args) == FALSE

\* `countRepeats === 0`
repeatIsZero(args) == args # <<>> /\ args[1] = 0

\* the first pass not counted
RepeatStartFull(args) ==
    IF args = <<>> \/ args[1] = 0 THEN -1 ELSE args[1]

\* an omitted count taken for no replay
RepeatStartOnce(args) ==
    IF args = <<>> \/ args[1] = 0 THEN 0 ELSE args[1] - 1

\* `countRepeats ? countRepeats - 1 : -1`: undefined and 0 are falsy
RepeatStart(args) ==
    IF args = <<>> \/ args[1] = 0 THEN -1 ELSE args[1] - 1

repeatInit ==
    /\ it \in SeqsUpTo(RepeatValues, MaxLenRepeat)
    /\ pulled = 0
    /\ out = <<>>
    /\ pc = "start"
    /\ \E args \in RepeatArgs : closure = [op |-> "repeat", args |-> args]
    /\ locals = [values |-> <<>>, currentCount |-> 0, k |-> 0, passes |-> 0]
    /\ trace = <<>>

\* the first pull: `const values = []; if (countRepeats === 0) return;`
repeatStart ==
    /\ pc = "start"
    /\ pc' = IF repeatIsZero(closure.args) THEN "done" ELSE "for"
    /\ UNCHANGED <<it, pulled, out, closure, locals, trace>>

\* one pass of `for (const el of iterator)`: `values.push(el); yield el`
repeatLive ==
    /\ pc = "for"
    /\ pulled < Len(it)
    /\ LET el == it[pulled + 1] IN
          /\ locals' = [locals EXCEPT !.values = Append(@, el)]
          /\ out' = Append(out, el)
          /\ trace' = trace \o <<PullEvent(el), YieldEvent(-1, el)>>
    /\ pulled' = pulled + 1
    /\ UNCHANGED <<it, pc, closure>>

\* upstream is exhausted: `let currentCount = countRepeats ? countRepeats - 1 : -1`
repeatExhausted ==
    /\ pc = "for"
    /\ pulled = Len(it)
    /\ locals' = [locals EXCEPT !.currentCount = RepeatStart(closure.args)]
    /\ pc' = "loop"
    /\ UNCHANGED <<it, pulled, out, closure, trace>>

\* `currentCount !== 0` holds: `yield* values` starts
repeatPass ==
    /\ pc = "loop"
    /\ locals.currentCount # 0
    /\ locals.passes < MaxPasses
    /\ locals' = [locals EXCEPT !.k = 0, !.passes = @ + 1]
    /\ pc' = "replay"
    /\ UNCHANGED <<it, pulled, out, closure, trace>>

\* `yield* values`: the next stored element
repeatReplay ==
    /\ pc = "replay"
    /\ locals.k < Len(locals.values)
    /\ LET el == locals.values[locals.k + 1] IN
          /\ out' = Append(out, el)
          /\ trace' = Append(trace, YieldEvent(-1, el))
    /\ locals' = [locals EXCEPT !.k = @ + 1]
    /\ UNCHANGED <<it, pulled, pc, closure>>

\* `yield* values` is through: `currentCount--`
repeatPassEnd ==
    /\ pc = "replay"
    /\ locals.k >= Len(locals.values)
    /\ locals' = [locals EXCEPT !.currentCount = @ - 1]
    /\ pc' = "loop"
    /\ UNCHANGED <<it, pulled, out, closure, trace>>

\* `currentCount !== 0` fails: the generator returns
repeatDone ==
    /\ pc = "loop"
    /\ locals.currentCount = 0
    /\ pc' = "done"
    /\ UNCHANGED <<it, pulled, out, closure, locals, trace>>

repeatNextStep ==
    \/ repeatStart
    \/ repeatLive
    \/ repeatExhausted
    \/ repeatPass
    \/ repeatReplay
    \/ repeatPassEnd
    \/ repeatDone

SpecRepeat == repeatInit /\ [][repeatNextStep]_vars

\* ------------------------------------------------------- repeat: properties
\* s concatenated with itself n times
RECURSIVE Times(_, _)
Times(s, n) == IF n <= 0 THEN <<>> ELSE s \o Times(s, n - 1)

\* the k-th element (counted from 1) of the endless cycle of the upstream
CycleAt(k) == it[((k - 1) % Len(it)) + 1]

\* the upstream elements pulled, in the order of the pulls
PullSeq == SelectSeq(trace, LAMBDA e : e.ev = "pull")

\* C12: repeat(n) with n >= 1 emits the upstream n times over, pulls every
\* upstream element exactly once, yields each element of the first pass right
\* after its pull and replays the later passes from the stored copy.
C12_RepeatCount ==
    closure.args # <<>> /\ closure.args[1] >= 1 =>
        /\ pc = "done" => out = Times(it, closure.args[1])
        /\ \A k \in 1..Len(out) : out[k] = CycleAt(k)
        /\ Len(out) <= closure.args[1] * Len(it)
        /\ Len(PullSeq) = pulled
        /\ \A k \in 1..Len(PullSeq) : PullSeq[k].args = <<it[k]>>
        /\ \A p \in Events("pull") :
              trace[p + 1].ev = "yield" /\ trace[p + 1].args = trace[p].args
        /\ locals.values = SubSeq(it, 1, pulled)
        /\ pc \in {"loop", "replay", "done"} => pulled = Len(it)

\* repeat(3) has emitted an upstream of two elements three times
C12_Witness ==
    /\ pc = "done"
    /\ closure.args = <<3>>
    /\ Len(it) = 2
    /\ it[1] # it[2]
    /\ Len(out) = 6

\* C13: repeat(0) emits nothing and completes on the first pull without
\* pulling an element from upstream.
C13_RepeatZero ==
    closure.args = <<0>> =>
        /\ out = <<>>
        /\ pulled = 0
        /\ Events("pull") = {}
        /\ pc \in {"start", "done"}

\* repeat(0) has completed on a non-empty upstream
C13_Witness ==
    /\ closure.args = <<0>>
    /\ pc = "done"
    /\ Len(it) = 2

\* the count is omitted or negative
RepeatEndless == closure.args = <<>> \/ closure.args[1] < 0

\* C14: repeat() and repeat(n) with n < 0 never complete on a non-empty
\* upstream, and their k-th emitted element is S[k mod length(S)].
C14_RepeatEndless ==
    RepeatEndless /\ it # <<>> =>
        /\ pc # "done"
        /\ \A k \in 1..Len(out) : out[k] = CycleAt(k)
        /\ pc = "loop" => Len(out) = (locals.passes + 1) * Len(it)

\* repeat() is in its third replay of an upstream of two elements
C14_Witness ==
    /\ closure.args = <<>>
    /\ Len(it) = 2
    /\ it[1] # it[2]
    /\ locals.passes = 3
    /\ Len(out) = 7

\* ---------------------------------------------------------------- distinct
\* longest upstream given to distinct
MaxLenDistinct == 3

\* the elements of the upstreams of distinct and distinctUntilChanged
DistinctValues == 1..3

\* the key selectors: the default `(val) => val`, and a function of the user
\* that gives several elements the same key
KeySelectors == {"identity", "parity"}

\* `keySelector(el)`
KeyOf(keySelector, el) == IF keySelector = "identity" THEN el ELSE el % 2

\* the test of the seen keys inverted
distinctIsNewInverted(hasSeen, key) == key \in hasSeen

\* `!hasSeen.has(key)`
distinctIsNew(hasSeen, key) == key \notin hasSeen

\* the key of an emitted element not remembered
distinctAddForgotten(hasSeen, key) == hasSeen

\* `hasSeen.add(key)`
distinctAdd(hasSeen, key) == hasSeen \cup {key}

distinctInit ==
    /\ it \in SeqsUpTo(DistinctValues, MaxLenDistinct)
    /\ pulled = 0
    /\ out = <<>>
    /\ pc = "for"
    /\ \E keySelector \in KeySelectors :
          closure = [op |-> "distinct", keySelector |-> keySelector]
    /\ locals = [hasSeen |-> {}]
    /\ trace = <<>>

\* one pass of `for (const el of it)`
distinctStep ==
    /\ pc = "for"
    /\ pulled < Len(it)
    /\ LET el == it[pulled + 1]
           key == KeyOf(closure.keySelector, el)
       IN IF distinctIsNew(locals.hasSeen, key)
          THEN /\ locals' = [locals EXCEPT !.hasSeen = distinctAdd(@, key)]
               /\ out' = Append(out, el)
               /\ trace' = trace \o <<PullEvent(el), YieldEvent(pulled, el)>>
          ELSE /\ trace' = trace \o <<PullEvent(el)>>
               /\ UNCHANGED <<out, locals>>
    /\ pulled' = pulled + 1
    /\ UNCHANGED <<it, pc, closure>>

\* upstream is exhausted
distinctExhausted ==
    /\ pc = "for"
    /\ pulled = Len(it)
    /\ pc' = "done"
    /\ UNCHANGED <<it, pulled, out, closure, locals, trace>>

distinctNextStep ==
    \/ distinctStep
    \/ distinctExhausted

SpecDistinct == distinctInit /\ [][distinctNextStep]_vars

\* ----------------------------------------------------- distinct: properties
\* the 1-based positions among the first n upstream elements that carry
\* their key for the first time
FirstPositions(keySelector, n) ==
    {k \in 1..n : \A j \in 1..(k - 1) :
        KeyOf(keySelector, it[j]) # KeyOf(keySelector, it[k])}

\* the elements of s at the positions in ps, in the order of s
RECURSIVE AtPositions(_, _)
AtPositions(s, ps) ==
    IF s = <<>> THEN <<>>
    ELSE AtPositions(SubSeq(s, 1, Len(s) - 1), ps)
            \o (IF Len(s) \in ps THEN <<s[Len(s)]>> ELSE <<>>)

DistinctState ==
    LET sel == closure.keySelector IN
    /\ out = AtPositions(SubSeq(it, 1, pulled), FirstPositions(sel, pulled))
    /\ \A m, n \in 1..Len(out) :
          KeyOf(sel, out[m]) = KeyOf(sel, out[n]) => m = n
    /\ {KeyOf(sel, out[n]) : n \in 1..Len(out)}
          = {KeyOf(sel, it[k]) : k \in 1..pulled}
    /\ locals.hasSeen = {KeyOf(sel, it[k]) : k \in 1..pulled}

\* C15: the output of distinct(keySelector) is the subsequence of the first
\* elements carrying each key, in upstream order: no two emitted elements
\* share a key, every key pulled from upstream is in the output, and the set
\* of seen keys only grows.
C15_DistinctFirstOccurrences ==
    /\ []DistinctState
    /\ [][locals.hasSeen \subseteq locals'.hasSeen]_vars

\* distinct with a key selector has dropped a later element whose key, but
\* not whose value, was seen before, and has completed
C15_Witness ==
    /\ pc = "done"
    /\ closure.keySelector = "parity"
    /\ it = <<1, 2, 3>>
    /\ out = <<1, 2>>

\* ------------------------------------------- distinct()(distinct()(S))
\* two generators of distinct() with the default key selector, the outer one
\* pulling from the inner one: inner and outer are their sets hasSeen, mid is
\* what the inner generator has yielded
distinctTwiceInit ==
    /\ it \in SeqsUpTo(DistinctValues, MaxLenDistinct)
    /\ pulled = 0
    /\ out = <<>>
    /\ pc = "for"
    /\ closure = [op |-> "distinct(distinct)", keySelector |-> "identity"]
    /\ locals = [inner |-> {}, outer |-> {}, mid |-> <<>>]
    /\ trace = <<>>

\* the inner generator pulls an element; if it yields it, the loop body of
\* the outer generator runs on it
distinctTwiceStep ==
    /\ pc = "for"
    /\ pulled < Len(it)
    /\ LET el == it[pulled + 1]
           key == KeyOf(closure.keySelector, el)
           innerYields == distinctIsNew(locals.inner, key)
           outerYields == innerYields /\ distinctIsNew(locals.outer, key)
       IN /\ locals' = [inner |-> IF innerYields THEN distinctAdd(locals.inner, key)
                                  ELSE locals.inner,
                        outer |-> IF outerYields THEN distinctAdd(locals.outer, key)
                                  ELSE locals.outer,
                        mid |-> IF innerYields THEN Append(locals.mid, el)
                                ELSE locals.mid]
          /\ out' = IF outerYields THEN Append(out, el) ELSE out
          /\ trace' = trace \o <<PullEvent(el)>>
                \o (IF outerYields THEN <<YieldEvent(pulled, el)>> ELSE <<>>)
    /\ pulled' = pulled + 1
    /\ UNCHANGED <<it, pc, closure>>

\* upstream is exhausted: both generators return
distinctTwiceExhausted ==
    /\ pc = "for"
    /\ pulled = Len(it)
    /\ pc' = "done"
    /\ UNCHANGED <<it, pulled, out, closure, locals, trace>>

distinctTwiceNextStep ==
    \/ distinctTwiceStep
    \/ distinctTwiceExhausted

SpecDistinctTwice == distinctTwiceInit /\ [][distinctTwiceNextStep]_vars

NoRepeats(s) == \A m, n \in 1..Len(s) : s[m] = s[n] => m = n

\* C16: distinct()(distinct()(S)) emits what distinct()(S) emits, and
\* distinct() emits a sequence without repeated elements unchanged.
C16_DistinctIdempotent ==
    /\ out = locals.mid
    /\ NoRepeats(locals.mid)
    /\ NoRepeats(SubSeq(it, 1, pulled)) => locals.mid = SubSeq(it, 1, pulled)

\* both generators have completed on an upstream with a repeated element, of
\* which the inner one has yielded two elements
C16_Witness ==
    /\ pc = "done"
    /\ Len(it) = 3
    /\ ~NoRepeats(it)
    /\ Len(locals.mid) = 2
    /\ Len(out) = 2

\* ---------------------------------------------------- distinctUntilChanged
\* longest upstream given to distinctUntilChanged
MaxLenChanged == 3

\* `const noValue = Symbol('No value')`: equal to no key of the user
noValue == -2

\* the comparators: the default `(a, b) => a === b`, or a function of the user
Comparators == {"default", "user"}

\* what `comparator(last, key)` can return
CompareResults(comparator, last, key) ==
    IF comparator = "default" THEN {last = key} ELSE BOOLEAN

\* the comparator called on the unset `last` as well
hasLastAlways(last) == TRUE

\* `last === noValue` fails: there is a last key to compare with
hasLast(last) == last # noValue

\* `last` set to the key of every element
nextLastAlways(last, key, emitted) == key

\* `last = key` inside the if: the value of `last` after an element
nextLast(last, key, emitted) == IF emitted THEN key ELSE last

KeyEvent(k, el, key) == [ev |-> "key", buf |-> k, args |-> <<el>>, ret |-> key]
CompareEvent(k, last, key, r) ==
    [ev |-> "comparator", buf |-> k, args |-> <<last, key>>, ret |-> BoolStr(r)]

distinctUntilChangedInit ==
    /\ it \in SeqsUpTo(DistinctValues, MaxLenChanged)
    /\ pulled = 0
    /\ out = <<>>
    /\ pc = "for"
    /\ \E comparator \in Comparators, keySelector \in KeySelectors :
          closure = [op |-> "distinctUntilChanged", comparator |-> comparator,
                     keySelector |-> keySelector]
    /\ locals = [last |-> noValue]
    /\ trace = <<>>

\* one pass of `for (const el of it)`; the events carry the 0-based index of
\* the element
distinctUntilChangedStep ==
    /\ pc = "for"
    /\ pulled < Len(it)
    /\ LET el == it[pulled + 1]
           key == KeyOf(closure.keySelector, el)
           last == locals.last
       IN \E r \in IF hasLast(last)
                   THEN CompareResults(closure.comparator, last, key)
                   ELSE {FALSE} :
             LET emitted == ~hasLast(last) \/ ~r IN
             /\ locals' = [last |-> nextLast(last, key, emitted)]
             /\ out' = IF emitted THEN Append(out, el) ELSE out
             /\ trace' = trace \o <<PullEvent(el), KeyEvent(pulled, el, key)>>
                   \o (IF hasLast(last)
                       THEN <<CompareEvent(pulled, last, key, r)>> ELSE <<>>)
                   \o (IF emitted THEN <<YieldEvent(pulled, el)>> ELSE <<>>)
    /\ pulled' = pulled + 1
    /\ UNCHANGED <<it, pc, closure>>

\* upstream is exhausted
distinctUntilChangedExhausted ==
    /\ pc = "for"
    /\ pulled = Len(it)
    /\ pc' = "done"
    /\ UNCHANGED <<it, pulled, out, closure, locals, trace>>

distinctUntilChangedNextStep ==
    \/ distinctUntilChangedStep
    \/ distinctUntilChangedExhausted

SpecDistinctUntilChanged ==
    distinctUntilChangedInit /\ [][distinctUntilChangedNextStep]_vars

\* ----------------------------------------- distinctUntilChanged: properties
\* the 0-based indices of the elements emitted so far
EmittedIndices == {trace[p].buf : p \in Events("yield")}

\* the key of the last element emitted before the element at index k, or
\* noValue when there is none
LastEmittedKey(k) ==
    LET before == {m \in EmittedIndices : m < k}
    IN IF before = {} THEN noValue
       ELSE KeyOf(closure.keySelector,
                  it[(CHOOSE m \in before : \A n \in before : n <= m) + 1])

\* the calls of the comparator for the element at index k
CompareCalls(k) == {p \in Events("comparator") : trace[p].buf = k}

\* C17: distinctUntilChanged emits the first element; a later element is
\* emitted iff comparator(lastKey, key) is false, lastKey being the key of
\* the element emitted last and key the key of the current element; lastKey
\* changes only when an element is emitted, so no element is emitted whose
\* key the comparator has reported equal to the key of the one emitted
\* before it.
C17_DistinctUntilChanged ==
    /\ pulled > 0 => 0 \in EmittedIndices
    /\ \A k \in 1..(pulled - 1) :
          \E p \in CompareCalls(k) :
             /\ trace[p].args = <<LastEmittedKey(k), KeyOf(closure.keySelector, it[k + 1])>>
             /\ k \in EmittedIndices <=> trace[p].ret = "false"
    /\ locals.last = LastEmittedKey(pulled)
    /\ out = AtPositions(SubSeq(it, 1, pulled), {k + 1 : k \in EmittedIndices})
    /\ closure.comparator = "default" =>
          \A n \in 1..(Len(out) - 1) :
             KeyOf(closure.keySelector, out[n]) # KeyOf(closure.keySelector, out[n + 1])

\* a comparator of the user has reported the second key equal to the first
\* and the third key different from the first: the second element was dropped
\* and the third compared with the first
C17_Witness ==
    /\ pc = "done"
    /\ closure.comparator = "user"
    /\ closure.keySelector = "identity"
    /\ it = <<1, 2, 3>>
    /\ out = <<1, 3>>

\* C18: the unset sentinel never reaches the comparator or the key selector:
\* the comparator is not called for the first element and is called once for
\* every later one, both arguments being keys that the key selector has
\* computed from upstream elements.
C18_NoSentinelToCallbacks ==
    /\ CompareCalls(0) = {}
    /\ \A k \in 1..(pulled - 1) : Cardinality(CompareCalls(k)) = 1
    /\ Cardinality(Events("comparator")) = IF pulled = 0 THEN 0 ELSE pulled - 1
    /\ \A p \in Events("comparator") :
          /\ trace[p].args[1] # noValue
          /\ trace[p].args[2] # noValue
          /\ \E m \in 0..(trace[p].buf - 1) :
                trace[p].args[1] = KeyOf(closure.keySelector, it[m + 1])
          /\ trace[p].args[2] = KeyOf(closure.keySelector, it[trace[p].buf + 1])
    /\ \A p \in Events("key") :
          /\ trace[p].args = <<it[trace[p].buf + 1]>>
          /\ trace[p].args[1] # noValue
    /\ Cardinality(Events("key")) = pulled

\* three elements were processed: no comparator call for the first, one for
\* each of the other two
C18_Witness ==
    /\ pc = "done"
    /\ Len(it) = 3
    /\ Cardinality(Events("comparator")) = 2
    /\ Cardinality(Events("key")) = 3

\* --------------------------------------------------- takeWhile, skipWhile
\* longest upstream given to takeWhile and to skipWhile
MaxLenWhile == 3

\* the elements of the upstreams of takeWhile and skipWhile
WhileValues == 1..3

PredicateEvent(el, i, r) ==
    [ev |-> "predicate", buf |-> -1, args |-> <<el, i>>, ret |-> BoolStr(r)]

\* the loop going on after the predicate has failed
takeWhileReturnsNever(r) == FALSE

\* takeWhile: `if (!predicate(el, i)) return`
takeWhileReturns(r) == ~r

takeWhileInit ==
    /\ it \in SeqsUpTo(WhileValues, MaxLenWhile)
    /\ pulled = 0
    /\ out = <<>>
    /\ pc = "for"
    /\ closure = [op |-> "takeWhile"]
    /\ locals = [i |-> 0]
    /\ trace = <<>>

\* one pass of `for (const el of it)`
takeWhileStep ==
    /\ pc = "for"
    /\ pulled < Len(it)
    /\ LET el == it[pulled + 1] IN
       \E r \in BOOLEAN :
          IF takeWhileReturns(r)
          THEN /\ trace' = trace \o <<PullEvent(el), PredicateEvent(el, locals.i, r)>>
               /\ pc' = "done"
               /\ UNCHANGED <<out, locals>>
          ELSE /\ trace' = trace \o
                    <<PullEvent(el), PredicateEvent(el, locals.i, r),
                      YieldEvent(-1, el)>>
               /\ out' = Append(out, el)
               /\ locals' = [i |-> locals.i + 1]
               /\ pc' = pc
    /\ pulled' = pulled + 1
    /\ UNCHANGED <<it, closure>>

\* upstream is exhausted
takeWhileExhausted ==
    /\ pc = "for"
    /\ pulled = Len(it)
    /\ pc' = "done"
    /\ UNCHANGED <<it, pulled, out, closure, locals, trace>>

takeWhileNextStep ==
    \/ takeWhileStep
    \/ takeWhileExhausted

SpecTakeWhile == takeWhileInit /\ [][takeWhileNextStep]_vars

\* the calls of the predicate, in the order they were made
PredicateSeq == SelectSeq(trace, LAMBDA e : e.ev = "predicate")

\* the 1-based positions of the calls of the predicate that returned false
PredicateFalse == {k \in 1..Len(PredicateSeq) : PredicateSeq[k].ret = "false"}

\* the k-th call of the predicate is made on the k-th element and its index
PredicateInOrder ==
    \A k \in 1..Len(PredicateSeq) : PredicateSeq[k].args = <<it[k], k - 1>>

\* C19: takeWhile emits the longest prefix of the upstream on which the
\* predicate holds; the predicate is called once per element, with the
\* element and its 0-based index, up to and including the first element for
\* which it returns false; after that nothing is emitted, the predicate is
\* not called and upstream is not pulled.
C19_TakeWhilePrefix ==
    /\ PredicateInOrder
    /\ Len(PredicateSeq) = pulled
    /\ Len(PullSeq) = pulled
    /\ PredicateFalse \subseteq {pulled}
    /\ PredicateFalse # {} => pc = "done"
    /\ out = SubSeq(it, 1, pulled - Cardinality(PredicateFalse))
    /\ pc = "done" /\ PredicateFalse = {} => out = it

\* the predicate has failed on the second of three elements: one element
\* was emitted and the third was never pulled
C19_Witness ==
    /\ pc = "done"
    /\ Len(it) = 3
    /\ PredicateFalse = {2}
    /\ pulled = 2
    /\ Len(out) = 1

\* the predicate called on every element
skipWhileTestsAlways(shouldYield) == TRUE

\* skipWhile: `if (shouldYield) ... else`: the predicate is called only as
\* long as shouldYield is false
skipWhileTests(shouldYield) == ~shouldYield

skipWhileInit ==
    /\ it \in SeqsUpTo(WhileValues, MaxLenWhile)
    /\ pulled = 0
    /\ out = <<>>
    /\ pc = "for"
    /\ closure = [op |-> "skipWhile"]
    /\ locals = [i |-> 0, shouldYield |-> FALSE]
    /\ trace = <<>>

\* one pass of `for (const el of it)`
skipWhileStep ==
    /\ pc = "for"
    /\ pulled < Len(it)
    /\ LET el == it[pulled + 1] IN
       IF skipWhileTests(locals.shouldYield)
       THEN \E r \in BOOLEAN :
               /\ locals' = [i |-> locals.i + 1, shouldYield |-> ~r]
               /\ out' = IF ~r THEN Append(out, el) ELSE out
               /\ trace' = trace \o
                     <<PullEvent(el), PredicateEvent(el, locals.i, r)>>
                     \o (IF ~r THEN <<YieldEvent(-1, el)>> ELSE <<>>)
       ELSE /\ locals' = [locals EXCEPT !.i = @ + 1]
            /\ out' = Append(out, el)
            /\ trace' = trace \o <<PullEvent(el), YieldEvent(-1, el)>>
    /\ pulled' = pulled + 1
    /\ UNCHANGED <<it, pc, closure>>

\* upstream is exhausted
skipWhileExhausted ==
    /\ pc = "for"
    /\ pulled = Len(it)
    /\ pc' = "done"
    /\ UNCHANGED <<it, pulled, out, closure, locals, trace>>

skipWhileNextStep ==
    \/ skipWhileStep
    \/ skipWhileExhausted

SpecSkipWhile == skipWhileInit /\ [][skipWhileNextStep]_vars

\* C20: skipWhile emits the suffix of the upstream that starts at the first
\* element for which the predicate returns false; the predicate is called
\* once per element, with the element and its 0-based index, up to and
\* including that element and never afterwards, whatever the later elements
\* are.
C20_SkipWhileSuffix ==
    /\ PredicateInOrder
    /\ Len(PullSeq) = pulled
    /\ Cardinality(PredicateFalse) <= 1
    /\ PredicateFalse = {} =>
          /\ Len(PredicateSeq) = pulled
          /\ out = <<>>
    /\ \A f \in PredicateFalse :
          /\ Len(PredicateSeq) = f
          /\ out = SubSeq(it, f, pulled)

\* the predicate has failed on the first of three elements and was not
\* called on the other two; all three were emitted
C20_Witness ==
    /\ pc = "done"
    /\ Len(it) = 3
    /\ PredicateFalse = {1}
    /\ Len(PredicateSeq) = 1
    /\ out = it

\* ------------------------------------------------------------ take, skip
\* longest upstream given to take and to skip
MaxLenTake == 3

\* largest count given to take and to skip
MaxTake == 3

\* the elements of the upstreams of take and skip
TakeValues == {1, 2}

\* the arguments of take(...) and skip(...): none, or one count
TakeArgs == {<<>>} \cup {<<n>> : n \in -1..MaxTake}

\* `countElements = 1`, `countSkipped = 1`: the default parameter
countOrDefault(args) == IF args = <<>> THEN 1 ELSE args[1]

\* a predicate that holds for one index more
indexBelowOrAt(index, count) == index <= count

\* `(_, index) => index < countElements`, `(_, index) => index < countSkipped`
indexBelow(index, count) == index < count

\* take(...args) and skip(...args) are made, take is applied to the upstream
takeInit ==
    /\ it \in SeqsUpTo(TakeValues, MaxLenTake)
    /\ pulled = 0
    /\ out = <<>>
    /\ pc = "take"
    /\ \E args \in TakeArgs :
          closure = [args |-> args, count |-> countOrDefault(args)]
    /\ locals = [i |-> 0, shouldYield |-> FALSE, taken |-> <<>>, takePulled |-> 0]
    /\ trace = <<>>

\* one pass of the loop of takeWhile under take's predicate
takeStep ==
    /\ pc = "take"
    /\ pulled < Len(it)
    /\ LET el == it[pulled + 1]
           r == indexBelow(locals.i, closure.count) IN
       IF takeWhileReturns(r)
       THEN /\ trace' = trace \o <<PullEvent(el), PredicateEvent(el, locals.i, r)>>
            /\ pc' = "taken"
            /\ UNCHANGED <<out, locals>>
       ELSE /\ trace' = trace \o
                 <<PullEvent(el), PredicateEvent(el, locals.i, r),
                   YieldEvent(-1, el)>>
            /\ out' = Append(out, el)
            /\ locals' = [locals EXCEPT !.i = @ + 1]
            /\ pc' = pc
    /\ pulled' = pulled + 1
    /\ UNCHANGED <<it, closure>>

\* upstream is exhausted under take
takeExhausted ==
    /\ pc = "take"
    /\ pulled = Len(it)
    /\ pc' = "taken"
    /\ UNCHANGED <<it, pulled, out, closure, locals, trace>>

\* skip is applied to the same upstream, read again from its start
skipApply ==
    /\ pc = "taken"
    /\ pc' = "skip"
    /\ locals' = [i |-> 0, shouldYield |-> FALSE, taken |-> out,
                  takePulled |-> pulled]
    /\ pulled' = 0
    /\ out' = <<>>
    /\ trace' = <<>>
    /\ UNCHANGED <<it, closure>>

\* one pass of the loop of skipWhile under skip's predicate
skipStep ==
    /\ pc = "skip"
    /\ pulled < Len(it)
    /\ LET el == it[pulled + 1] IN
       IF skipWhileTests(locals.shouldYield)
       THEN LET r == indexBelow(locals.i, closure.count) IN
               /\ locals' = [locals EXCEPT !.i = @ + 1, !.shouldYield = ~r]
               /\ out' = IF ~r THEN Append(out, el) ELSE out
               /\ trace' = trace \o
                     <<PullEvent(el), PredicateEvent(el, locals.i, r)>>
                     \o (IF ~r THEN <<YieldEvent(-1, el)>> ELSE <<>>)
       ELSE /\ locals' = [locals EXCEPT !.i = @ + 1]
            /\ out' = Append(out, el)
            /\ trace' = trace \o <<PullEvent(el), YieldEvent(-1, el)>>
    /\ pulled' = pulled + 1
    /\ UNCHANGED <<it, pc, closure>>

\* upstream is exhausted under skip
skipExhausted ==
    /\ pc = "skip"
    /\ pulled = Len(it)
    /\ pc' = "done"
    /\ UNCHANGED <<it, pulled, out, closure, locals, trace>>

takeNextStep ==
    \/ takeStep
    \/ takeExhausted
    \/ skipApply
    \/ skipStep
    \/ skipExhausted

SpecTake == takeInit /\ [][takeNextStep]_vars

Min(a, b) == IF a <= b THEN a ELSE b
Max(a, b) == IF a >= b THEN a ELSE b

\* the count the claim speaks of: the one given, 1 when none is given
ClaimedCount == IF closure.args = <<>> THEN 1 ELSE closure.args[1]

\* how many elements take is to emit
TakeLength == Min(Max(ClaimedCount, 0), Len(it))

\* C21: take(n) emits the first min(max(n, 0), length) elements of a finite
\* upstream, skip(n) emits the remaining ones, and the two outputs one after
\* the other are the upstream; an omitted count is 1.
C21_TakeThenSkip ==
    /\ pc = "take" => out = SubSeq(it, 1, Len(out)) /\ Len(out) <= TakeLength
    /\ pc = "taken" => out = SubSeq(it, 1, TakeLength)
    /\ pc \in {"skip", "done"} => locals.taken = SubSeq(it, 1, TakeLength)
    /\ pc = "done" =>
          /\ out = SubSeq(it, TakeLength + 1, Len(it))
          /\ locals.taken \o out = it

\* take(2) and skip(2) have both run over a three-element upstream
C21_Witness ==
    /\ pc = "done"
    /\ closure.args = <<2>>
    /\ Len(it) = 3
    /\ Len(locals.taken) = 2
    /\ Len(out) = 1

\* C22: take(n) never pulls more than n elements from upstream.
C22_TakePullsAtMostCount ==
    /\ pc \in {"take", "taken"} => pulled <= Max(ClaimedCount, 0)
    /\ pc \in {"skip", "done"} => locals.takePulled <= Max(ClaimedCount, 0)

\* what take does pull: one element more than it emits, unless upstream
\* ends first
takePullsOneMore ==
    /\ pc = "take" => pulled = Len(out)
    /\ pc = "taken" => pulled = Min(Max(ClaimedCount, 0) + 1, Len(it))

\* ----------------------------------------------------------- tap, forEach
\* longest upstream given to tap and to forEach
MaxLenTap == 3

\* the elements of the upstreams of tap and forEach
TapValues == 1..3

\* what an effect may return: nothing, or a value
EffectResults == {"none", "42"}

EffectEvent(el, i, r) == [ev |-> "effect", buf |-> -1, args |-> <<el, i>>, ret |-> r]

\* the element handed on before the effect has run
tapPassYieldFirst(el, i, r) ==
    <<PullEvent(el), YieldEvent(-1, el), EffectEvent(el, i, r)>>

\* tap: one pass of the loop, `effect(el, i); yield el`
tapPass(el, i, r) ==
    <<PullEvent(el), EffectEvent(el, i, r), YieldEvent(-1, el)>>

\* an index that stays where it is
effectIndexKept(i) == i

\* tap, forEach: `i += 1`
effectIndexNext(i) == i + 1

tapInit ==
    /\ it \in SeqsUpTo(TapValues, MaxLenTap)
    /\ pulled = 0
    /\ out = <<>>
    /\ pc = "for"
    /\ closure \in {[op |-> "tap"], [op |-> "forEach"]}
    /\ locals = [i |-> 0]
    /\ trace = <<>>

\* tap: the consumer pulls, the generator runs up to its next yield
tapStep ==
    /\ pc = "for"
    /\ closure.op = "tap"
    /\ pulled < Len(it)
    /\ LET el == it[pulled + 1] IN
       \E r \in EffectResults :
          /\ trace' = trace \o tapPass(el, locals.i, r)
          /\ out' = Append(out, el)
    /\ locals' = [i |-> effectIndexNext(locals.i)]
    /\ pulled' = pulled + 1
    /\ UNCHANGED <<it, pc, closure>>

\* forEach: one pass of its loop; nothing is emitted
forEachStep ==
    /\ pc = "for"
    /\ closure.op = "forEach"
    /\ pulled < Len(it)
    /\ LET el == it[pulled + 1] IN
       \E r \in EffectResults :
          trace' = trace \o <<PullEvent(el), EffectEvent(el, locals.i, r)>>
    /\ locals' = [i |-> effectIndexNext(locals.i)]
    /\ pulled' = pulled + 1
    /\ UNCHANGED <<it, out, pc, closure>>

\* upstream is exhausted: tap completes, forEach returns
tapExhausted ==
    /\ pc = "for"
    /\ pulled = Len(it)
    /\ pc' = "done"
    /\ UNCHANGED <<it, pulled, out, closure, locals, trace>>

tapNextStep ==
    \/ tapStep
    \/ forEachStep
    \/ tapExhausted

SpecTap == tapInit /\ [][tapNextStep]_vars

\* the calls of the effect, in the order they were made
EffectSeq == SelectSeq(trace, LAMBDA e : e.ev = "effect")

\* the position in the trace of the k-th event of a kind
RECURSIVE NthEvent(_, _, _)
NthEvent(kind, k, from) ==
    IF from > Len(trace) THEN 0
    ELSE IF trace[from].ev = kind
         THEN IF k = 1 THEN from ELSE NthEvent(kind, k - 1, from + 1)
         ELSE NthEvent(kind, k, from + 1)

\* C23: tap and forEach call the effect once per upstream element, in
\* order, with the element and its 0-based index; under tap the effect for
\* an element runs after the element before it was handed to the consumer
\* and before the element itself is, whatever the effect returns, and the
\* emitted sequence is the upstream sequence; forEach emits nothing.
C23_EffectOncePerElement ==
    /\ Len(EffectSeq) = pulled
    /\ Len(PullSeq) = pulled
    /\ \A k \in 1..pulled : EffectSeq[k].args = <<it[k], k - 1>>
    /\ pc = "done" => pulled = Len(it)
    /\ closure.op = "tap" =>
          /\ out = SubSeq(it, 1, pulled)
          /\ Cardinality(Events("yield")) = pulled
          /\ \A k \in 1..pulled :
                /\ NthEvent("effect", k, 1) < NthEvent("yield", k, 1)
                /\ k > 1 => NthEvent("yield", k - 1, 1) < NthEvent("effect", k, 1)
                /\ trace[NthEvent("yield", k, 1)].args = <<it[k]>>
    /\ closure.op = "forEach" => out = <<>> /\ Events("yield") = {}

\* tap has run over three elements with an effect that returned a value
C23_Witness ==
    /\ pc = "done"
    /\ closure.op = "tap"
    /\ Len(it) = 3
    /\ out = it
    /\ \E k \in 1..3 : EffectSeq[k].ret = "42"

\* forEach has called its effect on three elements
C23_ForEachReached ==
    /\ pc = "done"
    /\ closure.op = "forEach"
    /\ Len(EffectSeq) = 3

\* ------------------------------------------------ map, flatMap, filter, find
\* longest upstream given to map, flatMap, filter and find
MaxLenIndexed == 3

\* the elements of the upstreams of map, flatMap, filter and find
IndexedValues == {1, 2}

\* what a mapping of map may return
MapResults == {10, 20}

\* how many elements the iterable returned by a mapping of flatMap may have
SubItLengths == 0..2

\* the iterable returned by a mapping of flatMap: n values made from el
subIt(el, n) == [k \in 1..n |-> el + k - 1]

CallbackEvent(el, i, r) ==
    [ev |-> "callback", buf |-> -1, args |-> <<el, i>>, ret |-> r]

indexedInit ==
    /\ it \in SeqsUpTo(IndexedValues, MaxLenIndexed)
    /\ pulled = 0
    /\ out = <<>>
    /\ pc = "for"
    /\ closure \in {[op |-> o] : o \in {"map", "flatMap", "filter", "find"}}
    /\ locals = [i |-> 0]
    /\ trace = <<>>

\* map: `yield mapping(el, i); i += 1`
mapStep ==
    /\ pc = "for"
    /\ closure.op = "map"
    /\ pulled < Len(it)
    /\ LET el == it[pulled + 1] IN
       \E r \in MapResults :
          /\ trace' = trace \o
                <<PullEvent(el), CallbackEvent(el, locals.i, r), YieldEvent(-1, r)>>
          /\ out' = Append(out, r)
    /\ locals' = [i |-> locals.i + 1]
    /\ pulled' = pulled + 1
    /\ UNCHANGED <<it, pc, closure>>

\* flatMap: `const subIt = mapping(el, i); yield* subIt; i += 1`, the
\* downstream pulls that drain one subIt taken together
flatMapStep ==
    /\ pc = "for"
    /\ closure.op = "flatMap"
    /\ pulled < Len(it)
    /\ LET el == it[pulled + 1] IN
       \E n \in SubItLengths :
          /\ trace' = trace \o
                <<PullEvent(el), CallbackEvent(el, locals.i, n)>>
                \o [k \in 1..n |-> YieldEvent(-1, subIt(el, n)[k])]
          /\ out' = out \o subIt(el, n)
    /\ locals' = [i |-> locals.i + 1]
    /\ pulled' = pulled + 1
    /\ UNCHANGED <<it, pc, closure>>

\* filter: `if (predicate(el, i)) yield el; i += 1`
filterStep ==
    /\ pc = "for"
    /\ closure.op = "filter"
    /\ pulled < Len(it)
    /\ LET el == it[pulled + 1] IN
       \E r \in BOOLEAN :
          /\ trace' = trace \o
                <<PullEvent(el), CallbackEvent(el, locals.i, BoolStr(r))>>
                \o (IF r THEN <<YieldEvent(-1, el)>> ELSE <<>>)
          /\ out' = IF r THEN Append(out, el) ELSE out
    /\ locals' = [i |-> locals.i + 1]
    /\ pulled' = pulled + 1
    /\ UNCHANGED <<it, pc, closure>>

\* a find that goes on after its first match
findReturnsNever(r) == FALSE

\* find: `yield el; return;` under `if (predicate(el, i))`
findReturns(r) == r

\* find: `const i = 0`, `if (predicate(el, i)) { yield el; return; }`
findStep ==
    /\ pc = "for"
    /\ closure.op = "find"
    /\ pulled < Len(it)
    /\ LET el == it[pulled + 1] IN
       \E r \in BOOLEAN :
          /\ trace' = trace \o
                <<PullEvent(el), CallbackEvent(el, locals.i, BoolStr(r))>>
                \o (IF r THEN <<YieldEvent(-1, el)>> ELSE <<>>)
          /\ out' = IF r THEN Append(out, el) ELSE out
          /\ pc' = IF findReturns(r) THEN "done" ELSE pc
    /\ pulled' = pulled + 1
    /\ UNCHANGED <<it, closure, locals>>

\* upstream is exhausted
indexedExhausted ==
    /\ pc = "for"
    /\ pulled = Len(it)
    /\ pc' = "done"
    /\ UNCHANGED <<it, pulled, out, closure, locals, trace>>

indexedNextStep ==
    \/ mapStep
    \/ flatMapStep
    \/ filterStep
    \/ findStep
    \/ indexedExhausted

SpecIndexed == indexedInit /\ [][indexedNextStep]_vars

\* the calls of the callback, in the order they were made
CallbackSeq == SelectSeq(trace, LAMBDA e : e.ev = "callback")

\* C24: every index-taking callback receives as its second argument the
\* 0-based upstream position of the element it is called on (here: the
\* callbacks of map, flatMap, filter and find).
C24_IndexIsPosition ==
    /\ Len(CallbackSeq) = pulled
    /\ \A k \in 1..Len(CallbackSeq) : CallbackSeq[k].args = <<it[k], k - 1>>

\* it holds for map, flatMap and filter
indexIsPositionButFind == closure.op # "find" => C24_IndexIsPosition

\* find calls its predicate once per pulled element, always with index 0
findIndexIsZero ==
    closure.op = "find" =>
       /\ Len(CallbackSeq) = pulled
       /\ \A k \in 1..Len(CallbackSeq) : CallbackSeq[k].args = <<it[k], 0>>

\* -------------------------------------------------------------- elementAt
\* longest upstream given to elementAt
MaxLenElementAt == 3

\* largest index given to elementAt
MaxIndex == 3

\* the elements of the upstreams of elementAt
ElementAtValues == 1..3

IteratorFinished == "RangeError: Iterator finished before expected index."

\* a test that also matches once the index has been passed
elementAtPassed(currentIndex, index) == currentIndex >= index

\* elementAt: `currentIndex === index`
elementAtReached(currentIndex, index) == currentIndex = index

elementAtInit ==
    /\ it \in SeqsUpTo(ElementAtValues, MaxLenElementAt)
    /\ pulled = 0
    /\ out = <<>>
    /\ pc = "for"
    /\ closure \in {[index |-> n] : n \in -1..MaxIndex}
    /\ locals = [currentIndex |-> 0, error |-> "none"]
    /\ trace = <<>>

\* one pass of `for (const el of it)`
elementAtStep ==
    /\ pc = "for"
    /\ pulled < Len(it)
    /\ LET el == it[pulled + 1] IN
       IF elementAtReached(locals.currentIndex, closure.index)
       THEN /\ out' = Append(out, el)
            /\ trace' = trace \o <<PullEvent(el), YieldEvent(-1, el)>>
            /\ pc' = "done"
            /\ UNCHANGED locals
       ELSE /\ locals' = [locals EXCEPT !.currentIndex = @ + 1]
            /\ trace' = Append(trace, PullEvent(el))
            /\ UNCHANGED <<out, pc>>
    /\ pulled' = pulled + 1
    /\ UNCHANGED <<it, closure>>

\* upstream is exhausted: `throw new RangeError(...)`
elementAtExhausted ==
    /\ pc = "for"
    /\ pulled = Len(it)
    /\ pc' = "thrown"
    /\ locals' = [locals EXCEPT !.error = IteratorFinished]
    /\ UNCHANGED <<it, pulled, out, closure, trace>>

elementAtNextStep ==
    \/ elementAtStep
    \/ elementAtExhausted

SpecElementAt == elementAtInit /\ [][elementAtNextStep]_vars

\* upstream has a 0-based position `index`
HasPosition == 0 <= closure.index /\ closure.index < Len(it)

\* C25: elementAt(index) over an upstream that has position index emits
\* exactly the element at that position and completes after index + 1
\* upstream pulls; over an upstream that ends before that position, and for
\* any negative index, it emits nothing and fails with a RangeError, raised
\* only once upstream is exhausted.
C25_ElementAt ==
    /\ Len(PullSeq) = pulled
    /\ pc = "for" => out = <<>> /\ locals.error = "none"
    /\ pc = "done" =>
          /\ HasPosition
          /\ out = <<it[closure.index + 1]>>
          /\ pulled = closure.index + 1
          /\ locals.error = "none"
    /\ pc = "thrown" =>
          /\ ~HasPosition
          /\ out = <<>>
          /\ pulled = Len(it)
          /\ locals.error = IteratorFinished
    /\ HasPosition => pulled <= closure.index + 1

\* elementAt(1) has emitted the second of three elements
C25_Witness ==
    /\ pc = "done"
    /\ closure.index = 1
    /\ Len(it) = 3
    /\ pulled = 2

\* elementAt(-1) has failed after reading a three-element upstream to its end
C25_NegativeReached ==
    /\ pc = "thrown"
    /\ closure.index = -1
    /\ pulled = 3

\* ----------------------------------------------------------------- unwrap
\* longest upstream given to unwrap
MaxLenUnwrapAll == 3

\* the elements of the upstreams of unwrap
UnwrapValues == 1..3

\* `unwrap()` has returned the function and it is applied to an upstream:
\* `[...buffer()(it)]` starts
unwrapInit ==
    /\ it \in SeqsUpTo(UnwrapValues, MaxLenUnwrapAll)
    /\ pulled = 0
    /\ out = <<>>
    /\ pc = "buffer"
    /\ closure = [op |-> "unwrap"]
    /\ locals = [i |-> 0, state |-> <<>>, result |-> <<>>, error |-> "none"]
    /\ trace = <<>>

\* buffer: one pass of its loop under the default close, `() => false`
unwrapStep ==
    /\ pc = "buffer"
    /\ pulled < Len(it)
    /\ LET el == it[pulled + 1] IN
       /\ locals' = [locals EXCEPT
             !.state = bufferAfterClose(Concat(@, el), FALSE),
             !.i = @ + 1]
       /\ trace' = Append(trace, PullEvent(el))
    /\ pulled' = pulled + 1
    /\ UNCHANGED <<it, out, pc, closure>>

\* buffer: `if (state.length) yield state`, which ends the spread
unwrapSpread ==
    /\ pc = "buffer"
    /\ pulled = Len(it)
    /\ locals' = [locals EXCEPT
          !.result = IF bufferRemainder(locals.state) THEN <<locals.state>> ELSE <<>>]
    /\ pc' = "unwrap"
    /\ UNCHANGED <<it, pulled, out, closure, trace>>

\* unwrap: `if (result.length === 0) throw new TypeError(...)`, else
\* `return result[0]`
unwrapResult ==
    /\ pc = "unwrap"
    /\ IF unwrapIsEmpty(locals.result)
       THEN /\ locals' = [locals EXCEPT !.error = NoValuesToUnwrap]
            /\ pc' = "thrown"
            /\ out' = out
       ELSE /\ out' = locals.result[1]
            /\ pc' = "returned"
            /\ locals' = locals
    /\ UNCHANGED <<it, pulled, closure, trace>>

unwrapNextStep ==
    \/ unwrapStep
    \/ unwrapSpread
    \/ unwrapResult

SpecUnwrap == unwrapInit /\ [][unwrapNextStep]_vars

\* C27: unwrap() on a non-empty finite upstream returns the array of all
\* its elements in upstream order; on an empty upstream it returns no array,
\* not even an empty one, and fails with TypeError('No values to unwrap.').
C27_Unwrap ==
    /\ pc = "returned" =>
          /\ it # <<>>
          /\ out = it
          /\ pulled = Len(it)
          /\ locals.error = "none"
    /\ pc = "thrown" =>
          /\ it = <<>>
          /\ out = <<>>
          /\ locals.error = NoValuesToUnwrap
    /\ pc \notin {"returned", "thrown"} => locals.error = "none" /\ out = <<>>

\* unwrap has returned the three different elements of its upstream
C27_Witness ==
    /\ pc = "returned"
    /\ Len(out) = 3
    /\ out[1] # out[2]
    /\ out[2] # out[3]

\* unwrap has failed on the empty upstream
C27_EmptyReached ==
    /\ pc = "thrown"
    /\ it = <<>>

\* ------------------------------------------------------------------- pipe
\* the largest number of functions given to pipe
MaxFns == 3

\* longest array given to pipe as its first argument
MaxLenPipe == 2

\* the first arguments of pipe: arrays
PipeValues == SeqsUpTo({1, 2}, MaxLenPipe)

\* the functions given to pipe, by name
PipeFns == {"identity", "reverse", "rest"}

\* the result of calling a function with one argument
Call(func, value) ==
    CASE func = "identity" -> value
      [] func = "reverse" -> [k \in 1..Len(value) |-> value[Len(value) + 1 - k]]
      [] func = "rest" -> IF value = <<>> THEN <<>> ELSE Tail(value)

FuncEvent(func, k, prev, r) ==
    [ev |-> func, buf |-> k, args |-> <<prev>>, ret |-> r]

\* the functions taken from the right, as reduceRight would
pipeFuncFromRight(fns, index) == fns[Len(fns) - index]

\* `fns.reduce(...)`: the function of pass `index` (0-based)
pipeFunc(fns, index) == fns[index + 1]

\* `pipe(a, ...fns)` is called: reduce starts with `a` as prev
pipeInit ==
    /\ it = <<>>
    /\ pulled = 0
    /\ out = <<>>
    /\ pc = "reduce"
    /\ \E a \in PipeValues, fns \in SeqsUpTo(PipeFns, MaxFns) :
          /\ closure = [a |-> a, fns |-> fns]
          /\ locals = [prev |-> a, index |-> 0]
    /\ trace = <<>>

\* one pass of reduce: `(prev, func) => func(prev)`
pipeCall ==
    /\ pc = "reduce"
    /\ locals.index < Len(closure.fns)
    /\ LET func == pipeFunc(closure.fns, locals.index)
           r == Call(func, locals.prev) IN
       /\ trace' = Append(trace, FuncEvent(func, locals.index + 1, locals.prev, r))
       /\ locals' = [prev |-> r, index |-> locals.index + 1]
    /\ UNCHANGED <<it, pulled, out, pc, closure>>

\* reduce is through: pipe returns its result
pipeReturn ==
    /\ pc = "reduce"
    /\ locals.index = Len(closure.fns)
    /\ out' = locals.prev
    /\ pc' = "returned"
    /\ UNCHANGED <<it, pulled, closure, locals, trace>>

pipeNextStep ==
    \/ pipeCall
    \/ pipeReturn

SpecPipe == pipeInit /\ [][pipeNextStep]_vars

\* fn(...f1(a)): the last function called on what the ones before it give
RECURSIVE Nested(_, _)
Nested(fns, a) ==
    IF fns = <<>> THEN a
    ELSE Call(fns[Len(fns)], Nested(SubSeq(fns, 1, Len(fns) - 1), a))

\* C28: pipe(a, f1, ..., fn) returns fn(...f1(a)): the functions are called
\* left to right, each once, each with the result before it as its only
\* argument, the first one with a itself; pipe(a) returns a.
C28_PipeLeftToRight ==
    /\ Len(trace) = locals.index
    /\ \A k \in 1..Len(trace) :
          /\ trace[k].ev = closure.fns[k]
          /\ trace[k].buf = k
          /\ trace[k].args = <<Nested(SubSeq(closure.fns, 1, k - 1), closure.a)>>
          /\ trace[k].ret = Nested(SubSeq(closure.fns, 1, k), closure.a)
    /\ pc = "returned" =>
          /\ Len(trace) = Len(closure.fns)
          /\ out = Nested(closure.fns, closure.a)
          /\ closure.fns = <<>> => out = closure.a

\* pipe([1, 2], rest, reverse, ...) has returned; the other order of the
\* first two functions gives another result
C28_Witness ==
    /\ pc = "returned"
    /\ Len(closure.fns) = 3
    /\ closure.a = <<1, 2>>
    /\ closure.fns[1] = "rest"
    /\ closure.fns[2] = "reverse"
    /\ trace[1].args = <<(<<1, 2>>)>>
    /\ out # Nested(<<"reverse", "rest", closure.fns[3]>>, closure.a)

\* pipe(a) has returned a
C28_IdentityReached ==
    /\ pc = "returned"
    /\ closure.fns = <<>>
    /\ out = <<1, 2>>

\* ------------------------------------------- repeat: the pulls of a consumer
\* the number of elements the consumer pulls from repeat
MaxPulls == 4

\* the value below which a falling currentCount is no longer told apart
MinCount == -3

\* `currentCount--`: a negative count never comes back to 0 (it falls until
\* -2^53 and stays there); here it stays at MinCount
repeatCountDown(currentCount) ==
    IF currentCount <= MinCount THEN currentCount ELSE currentCount - 1

\* the consumer pulls and the first loop yields an upstream element
repeatPullLive ==
    /\ Len(out) < MaxPulls
    /\ repeatLive

\* the consumer pulls and `yield* values` yields a stored element
repeatPullReplay ==
    /\ Len(out) < MaxPulls
    /\ repeatReplay

\* `currentCount !== 0` holds: `yield* values` starts
repeatPullPass ==
    /\ pc = "loop"
    /\ locals.currentCount # 0
    /\ locals' = [locals EXCEPT !.k = 0]
    /\ pc' = "replay"
    /\ UNCHANGED <<it, pulled, out, closure, trace>>

\* `yield* values` is through: `currentCount--`
repeatPullPassEnd ==
    /\ pc = "replay"
    /\ locals.k >= Len(locals.values)
    /\ locals' = [locals EXCEPT !.currentCount = repeatCountDown(@)]
    /\ pc' = "loop"
    /\ UNCHANGED <<it, pulled, out, closure, trace>>

repeatPullNextStep ==
    \/ repeatStart
    \/ repeatPullLive
    \/ repeatExhausted
    \/ repeatPullPass
    \/ repeatPullReplay
    \/ repeatPullPassEnd
    \/ repeatDone

\* the generator runs whenever the consumer has pulled, and the consumer
\* pulls until it has MaxPulls elements or is told that there are no more
SpecRepeatPull ==
    repeatInit /\ [][repeatPullNextStep]_vars /\ WF_vars(repeatPullNextStep)

\* the pull after n elements returns: with an element or with completion
PullReturns(n) == (Len(out) = n) ~> (Len(out) = n + 1 \/ pc = "done")

\* C30: for every finite upstream and every count, omitted and negative
\* counts included, each downstream pull on repeat returns after finitely
\* many steps, with an element or with completion, also when the upstream
\* is empty.
C30_RepeatPullReturns == \A n \in 0..(MaxPulls - 1) : PullReturns(n)

\* the replay is endless and has nothing to yield
RepeatSpins ==
    /\ it = <<>>
    /\ ~repeatIsZero(closure.args)
    /\ RepeatStart(closure.args) < 0

\* every pull returns unless the upstream is empty and the count is omitted
\* or negative
repeatPullReturnsUnlessSpins ==
    \A n \in 0..(MaxPulls - 1) :
       (~RepeatSpins /\ Len(out) = n) ~> (Len(out) = n + 1 \/ pc = "done")

\* on an empty upstream with an omitted or negative count the first pull
\* never returns: nothing is ever yielded and the generator never completes
repeatSpinsForever == [](RepeatSpins => out = <<>> /\ pc # "done")

\* the look of it: a replay pass has ended with nothing yielded and the next
\* one is due
repeatSpinReached ==
    /\ RepeatSpins
    /\ pc = "loop"
    /\ locals.currentCount < -1

\* ------------------------- take over buffer(close) on an endless upstream
\* the largest count given to take over buffer
MaxTakeBuffers == 2

\* the largest k: close returns true at least every k elements
MaxEvery == 2

\* what a close that returns true at least every `every` elements can
\* return for a buffer
CloseResultsEvery(every, state) ==
    IF Len(state) >= every THEN {TRUE} ELSE BOOLEAN

TakeYieldEvent(v) == [ev |-> "yield", buf |-> -2, args |-> <<v>>, ret |-> "none"]

\* take(count) is applied to buffer(close) of an upstream that never ends;
\* `it` is what has been read of the upstream
bufferTakeInit ==
    /\ it = <<>>
    /\ pulled = 0
    /\ out = <<>>
    /\ pc = "buffer"
    /\ \E n \in -1..MaxTakeBuffers, k \in 1..MaxEvery :
          closure = [op |-> "take", count |-> n, every |-> k]
    /\ locals = [state |-> <<>>, i |-> 0, index |-> 0]
    /\ trace = <<>>

\* one pass of buffer's loop inside a pull of take; when the buffer is
\* closed it is yielded to takeWhile, which calls take's predicate on it and
\* yields it downstream or returns
bufferTakeStep ==
    /\ pc = "buffer"
    /\ \E el \in BufferValues :
       LET state == Concat(locals.state, el) IN
       \E r \in CloseResultsEvery(closure.every, state) :
          /\ it' = Append(it, el)
          /\ IF r
             THEN LET p == indexBelow(locals.index, closure.count) IN
                  IF takeWhileReturns(p)
                  THEN /\ trace' = trace \o
                             <<PullEvent(el), CloseEvent(-1, el, locals.i, state, r),
                               YieldEvent(-1, state),
                               PredicateEvent(state, locals.index, p)>>
                       /\ pc' = "done"
                       /\ UNCHANGED <<out, locals>>
                  ELSE /\ trace' = trace \o
                             <<PullEvent(el), CloseEvent(-1, el, locals.i, state, r),
                               YieldEvent(-1, state),
                               PredicateEvent(state, locals.index, p),
                               TakeYieldEvent(state)>>
                       /\ out' = Append(out, state)
                       /\ locals' = [state |-> bufferAfterClose(state, r),
                                     i |-> locals.i + 1,
                                     index |-> locals.index + 1]
                       /\ pc' = pc
             ELSE /\ trace' = trace \o
                        <<PullEvent(el), CloseEvent(-1, el, locals.i, state, r)>>
                  /\ locals' = [locals EXCEPT
                        !.state = bufferAfterClose(state, r), !.i = @ + 1]
                  /\ UNCHANGED <<out, pc>>
    /\ pulled' = pulled + 1
    /\ UNCHANGED closure

bufferTakeNextStep ==
    \/ bufferTakeStep
    \/ bufferToggleNextStep

\* take over buffer(close) on an endless upstream, and bufferToggle on a
\* finite one
SpecBufferTake ==
    (bufferTakeInit \/ bufferToggleInit) /\ [][bufferTakeNextStep]_vars

\* every close call that returned true is followed at once by the yield of
\* its buffer: no pull and no open or close call lies between them
ClosedIsYieldedNext ==
    \A p \in Events("close") :
       trace[p].ret = "true" =>
          /\ p < Len(trace)
          /\ trace[p + 1].ev = "yield"
          /\ trace[p + 1].buf = trace[p].buf
          /\ trace[p + 1].args = <<trace[p].args[3]>>

\* C29: buffer(close) and bufferToggle yield a buffer in the downstream pull
\* in which its close predicate returned true, with no upstream pull and no
\* open or close call for a later element before it; and take(n), n >= 0,
\* over buffer(close) on an endless upstream whose close returns true at
\* least every k elements ends after at most k * (n + 1) upstream pulls.
C29_BufferDeliveredAtClose ==
    /\ ClosedIsYieldedNext
    /\ closure.op = "take" /\ closure.count >= 0 =>
          /\ pulled <= closure.every * (closure.count + 1)
          /\ pc = "buffer" =>
                /\ Len(out) <= closure.count
                /\ pulled < closure.every * (closure.count + 1)
          /\ pc = "done" => Len(out) = closure.count

\* take(2) over a buffer closed at every second element has ended after
\* 2 * 3 upstream pulls
C29_Witness ==
    /\ closure.op = "take"
    /\ closure.count = 2
    /\ closure.every = 2
    /\ pc = "done"
    /\ pulled = 6
    /\ Len(out) = 2

\* bufferToggle has yielded two buffers closed by the same element
C29_ToggleReached ==
    /\ closure.op = "bufferToggle"
    /\ \E p, q \in Events("close") :
          /\ p < q
          /\ trace[p].ret = "true"
          /\ trace[q].ret = "true"
          /\ trace[p].args[2] = trace[q].args[2]

\* for a negative count take ends with the first buffer, as take(0) does
bufferTakeAnyCount ==
    closure.op = "take" =>
       pulled <= closure.every * (Max(closure.count, 0) + 1)

\* ------------------------------------------------- callbacks that throw
\* a call of a user callback that threw: the callback's arguments, and the
\* buffer for a close function of bufferToggle
ThrowEvent(b, args) == [ev |-> "throw", buf |-> b, args |-> args, ret |-> "none"]

\* an operator that catches the error and goes on
callbackThrewCaught(at) == at

\* no operator has a try around a callback: the error leaves the generator,
\* which is finished from then on
callbackThrew(at) == "thrown"

\* one of map, filter, tap, takeWhile, skipWhile, reduce, buffer and
\* bufferToggle is applied to an upstream
throwInit ==
    \/ indexedInit /\ closure.op \in {"map", "filter"}
    \/ tapInit /\ closure.op = "tap"
    \/ takeWhileInit
    \/ skipWhileInit
    \/ reduceInit
    \/ bufferInit /\ closure.close = "user"
    \/ bufferToggleInit

\* map, filter, tap, takeWhile, skipWhile: the callback called on the next
\* element throws
callbackThrows ==
    /\ pc = "for"
    /\ closure.op \in {"map", "filter", "tap", "takeWhile", "skipWhile"}
    /\ closure.op = "skipWhile" => skipWhileTests(locals.shouldYield)
    /\ pulled < Len(it)
    /\ LET el == it[pulled + 1] IN
       trace' = trace \o <<PullEvent(el), ThrowEvent(-1, <<el, locals.i>>)>>
    /\ pulled' = pulled + 1
    /\ pc' = callbackThrew(pc)
    /\ UNCHANGED <<it, out, closure, locals>>

\* reduce: `acc = fn(acc, el)` throws; acc is not assigned
reduceThrows ==
    /\ pc = "for"
    /\ closure.op = "reduce"
    /\ pulled < Len(it)
    /\ closure.acc # unused
    /\ LET el == it[pulled + 1] IN
       trace' = trace \o <<PullEvent(el), ThrowEvent(-1, <<closure.acc, el>>)>>
    /\ pulled' = pulled + 1
    /\ pc' = callbackThrew(pc)
    /\ UNCHANGED <<it, out, closure, locals>>

\* buffer: `close(el, i, state)` throws, after `state = state.concat([el])`
bufferThrows ==
    /\ pc = "for"
    /\ closure.op = "buffer"
    /\ pulled < Len(it)
    /\ LET el == it[pulled + 1]
           state == Concat(locals.state, el)
       IN /\ trace' = trace \o
                <<PullEvent(el), ThrowEvent(-1, <<el, locals.i, state>>)>>
          /\ locals' = [locals EXCEPT !.state = state]
    /\ pulled' = pulled + 1
    /\ pc' = callbackThrew(pc)
    /\ UNCHANGED <<it, out, closure>>

\* bufferToggle: `open(el, i)` throws
bufferToggleOpenThrows ==
    /\ pc = "for"
    /\ closure.op = "bufferToggle"
    /\ pulled < Len(it)
    /\ LET el == it[pulled + 1] IN
       /\ trace' = trace \o <<PullEvent(el), ThrowEvent(-1, <<el, locals.i>>)>>
       /\ locals' = [locals EXCEPT !.el = el, !.j = 0]
    /\ pulled' = pulled + 1
    /\ pc' = callbackThrew("inner")
    /\ UNCHANGED <<it, out, closure>>

\* bufferToggle: `subBuffer.close(el, i, subBuffer.state)` throws, after the
\* element was added to the buffer
bufferToggleCloseThrows ==
    /\ pc = "inner"
    /\ closure.op = "bufferToggle"
    /\ locals.j < Len(locals.buffers)
    /\ LET j == locals.j + 1
           subBuffer == locals.buffers[j]
       IN /\ ~IsNull(subBuffer)
          /\ subBuffer.close = "user"
          /\ LET state == Concat(subBuffer.state, locals.el) IN
             /\ trace' = Append(trace,
                   ThrowEvent(subBuffer.openedAt, <<locals.el, locals.i, state>>))
             /\ locals' = [locals EXCEPT !.j = @ + 1, !.buffers[j].state = state]
    /\ pc' = callbackThrew(pc)
    /\ UNCHANGED <<it, pulled, out, closure>>

throwNextStep ==
    \/ closure.op = "map" /\ mapStep
    \/ closure.op = "filter" /\ filterStep
    \/ closure.op \in {"map", "filter"} /\ indexedExhausted
    \/ closure.op = "tap" /\ (tapStep \/ tapExhausted)
    \/ closure.op = "takeWhile" /\ (takeWhileStep \/ takeWhileExhausted)
    \/ closure.op = "skipWhile" /\ (skipWhileStep \/ skipWhileExhausted)
    \/ closure.op = "reduce" /\ reduceNextStep
    \/ closure.op = "buffer" /\ bufferNextStep
    \/ closure.op = "bufferToggle" /\ bufferToggleNextStep
    \/ callbackThrows
    \/ reduceThrows
    \/ bufferThrows
    \/ bufferToggleOpenThrows
    \/ bufferToggleCloseThrows

SpecThrow == throwInit /\ [][throwNextStep]_vars

\* the values yielded, in the order of the yields
YieldSeq == SelectSeq(trace, LAMBDA e : e.ev = "yield")

\* C26: when a callback of map, filter, takeWhile, skipWhile, tap, reduce,
\* buffer or bufferToggle throws while element k is processed, the consumer
\* has the error in the pull that made the call, what was yielded before
\* is delivered as it was, and the call is the last thing the operator does:
\* no second call for element k, no upstream pull and no yield after it.
C26_CallbackThrows ==
    /\ Cardinality(Events("throw")) <= 1
    /\ pc = "thrown" <=> Events("throw") # {}
    /\ \A p \in Events("throw") :
          /\ p = Len(trace)
          /\ \E a \in 1..Len(trace[p].args) : trace[p].args[a] = it[pulled]
    /\ Len(PullSeq) = pulled
    /\ \A k \in 1..pulled : PullSeq[k].args = <<it[k]>>
    /\ Len(out) = Len(YieldSeq)
    /\ \A k \in 1..Len(out) : out[k] = YieldSeq[k].args[1]

\* the mapping of map has thrown on the second of three elements, after one
\* value was yielded
C26_Witness ==
    /\ closure.op = "map"
    /\ pc = "thrown"
    /\ Len(it) = 3
    /\ pulled = 2
    /\ Len(out) = 1

\* a close function of bufferToggle has thrown on an element that had closed
\* another buffer before
C26_ToggleReached ==
    /\ closure.op = "bufferToggle"
    /\ pc = "thrown"
    /\ \E p \in Events("close") :
          /\ trace[p].ret = "true"
          /\ trace[p].args[2] = trace[Len(trace)].args[2]
          /\ Len(trace[Len(trace)].args) = 3

\* the fn of reduce has thrown
C26_ReduceReached ==
    /\ closure.op = "reduce"
    /\ pc = "thrown"
    /\ pulled = 2

\* ------------------------------------------- unwrapReduce: internal error
\* C31: unwrapReduce never raises its internal error: for every upstream
\* and both argument forms, whenever the inner unwrap returns, the array it
\* returns has exactly one element.
C31_NoInternalError ==
    /\ locals.error # AssumptionsWrong
    /\ pc = "unwrapReduce" => Len(locals.reduced) = 1
    /\ pc = "returned" => Len(locals.reduced) = 1 /\ out = locals.reduced

\* the inner unwrap has returned for unwrapReduce(fn, initial) on an empty
\* upstream, where reduce has called fn not once
C31_Witness ==
    /\ pc = "unwrapReduce"
    /\ Len(closure.args) = 2
    /\ it = <<>>
    /\ locals.reduced = <<closure.args[2]>>

\* the inner unwrap has returned for unwrapReduce(fn) on a two-element
\* upstream
C31_FoldReached ==
    /\ pc = "unwrapReduce"
    /\ Len(closure.args) = 1
    /\ Len(it) = 2

\* ------------------------------------------------------- find: properties
\* the 1-based positions of the calls of the callback that returned true
CallbackTrue == {k \in 1..Len(CallbackSeq) : CallbackSeq[k].ret = "true"}

\* C32: find emits at most one element, the first upstream element for
\* which the predicate returns true, and then completes without calling
\* the predicate on, or pulling, any later element; when the predicate
\* holds for no element find reads the whole upstream and emits nothing.
C32_FindFirst ==
    closure.op = "find" =>
       /\ Len(CallbackSeq) = pulled
       /\ Len(PullSeq) = pulled
       /\ \A k \in 1..pulled : CallbackSeq[k].args[1] = it[k]
       /\ CallbackTrue \subseteq {pulled}
       /\ CallbackTrue # {} => pc = "done" /\ out = <<it[pulled]>>
       /\ CallbackTrue = {} => out = <<>>
       /\ pc = "done" /\ CallbackTrue = {} => pulled = Len(it)

\* find has emitted the second of three elements and has left the third
\* where it was
C32_Witness ==
    /\ closure.op = "find"
    /\ pc = "done"
    /\ Len(it) = 3
    /\ pulled = 2
    /\ out = <<it[2]>>

\* find has read a three-element upstream to its end and emitted nothing
C32_NoneReached ==
    /\ closure.op = "find"
    /\ pc = "done"
    /\ pulled = 3
    /\ out = <<>>

\* ---------------------------------------------------------------- flatMap
\* longest upstream given to flatMap
MaxLenFlatMap == 3

\* a `yield*` that is left after its first element
flatMapSubDoneEarly(k, sub) == k >= 1 \/ k >= Len(sub)

\* `yield* subIt` is through when subIt has no further element
flatMapSubDone(k, sub) == k >= Len(sub)

flatMapInit ==
    /\ it \in SeqsUpTo(IndexedValues, MaxLenFlatMap)
    /\ pulled = 0
    /\ out = <<>>
    /\ pc = "for"
    /\ closure = [op |-> "flatMap"]
    /\ locals = [i |-> 0, subIt |-> <<>>, k |-> 0]
    /\ trace = <<>>

\* `for (const el of it)`: the next element and `const subIt = mapping(el, i)`
flatMapCall ==
    /\ pc = "for"
    /\ pulled < Len(it)
    /\ LET el == it[pulled + 1] IN
       \E n \in SubItLengths :
          /\ trace' = trace \o <<PullEvent(el), CallbackEvent(el, locals.i, n)>>
          /\ locals' = [locals EXCEPT !.subIt = subIt(el, n), !.k = 0]
    /\ pulled' = pulled + 1
    /\ pc' = "yield*"
    /\ UNCHANGED <<it, out, closure>>

\* `yield* subIt`: the next element of subIt is yielded
flatMapYield ==
    /\ pc = "yield*"
    /\ ~flatMapSubDone(locals.k, locals.subIt)
    /\ LET v == locals.subIt[locals.k + 1] IN
       /\ out' = Append(out, v)
       /\ trace' = Append(trace, YieldEvent(-1, v))
    /\ locals' = [locals EXCEPT !.k = @ + 1]
    /\ UNCHANGED <<it, pulled, pc, closure>>

\* `yield* subIt` is through: `i += 1`
flatMapSubEnd ==
    /\ pc = "yield*"
    /\ flatMapSubDone(locals.k, locals.subIt)
    /\ locals' = [locals EXCEPT !.i = @ + 1]
    /\ pc' = "for"
    /\ UNCHANGED <<it, pulled, out, closure, trace>>

\* upstream is exhausted
flatMapExhausted ==
    /\ pc = "for"
    /\ pulled = Len(it)
    /\ pc' = "done"
    /\ UNCHANGED <<it, pulled, out, closure, locals, trace>>

flatMapNextStep ==
    \/ flatMapCall
    \/ flatMapYield
    \/ flatMapSubEnd
    \/ flatMapExhausted

SpecFlatMap == flatMapInit /\ [][flatMapNextStep]_vars

\* what the k-th call of mapping has returned
Returned(k) == subIt(CallbackSeq[k].args[1], CallbackSeq[k].ret)

\* what the first k calls of mapping have returned, one after the other
RECURSIVE ReturnedUpTo(_)
ReturnedUpTo(k) == IF k = 0 THEN <<>> ELSE ReturnedUpTo(k - 1) \o Returned(k)

\* the number of yields before position p of the trace
YieldsBefore(p) == Cardinality({q \in Events("yield") : q < p})

\* C33: flatMap emits what mapping(el_0, 0), mapping(el_1, 1), ... return,
\* one after the other in upstream order; mapping is called once per
\* upstream element, and the next element is pulled and mapping called on
\* it only when all that was returned for the element before is emitted.
C33_FlatMapInOrder ==
    /\ Len(CallbackSeq) = pulled
    /\ Len(PullSeq) = pulled
    /\ \A k \in 1..pulled : CallbackSeq[k].args = <<it[k], k - 1>>
    /\ pc = "yield*" =>
          /\ pulled >= 1
          /\ locals.subIt = Returned(pulled)
          /\ out = ReturnedUpTo(pulled - 1) \o SubSeq(locals.subIt, 1, locals.k)
    /\ pc \in {"for", "done"} => out = ReturnedUpTo(pulled)
    /\ pc = "done" => pulled = Len(it)
    /\ \A k \in 1..pulled :
          /\ YieldsBefore(NthEvent("pull", k, 1)) = Len(ReturnedUpTo(k - 1))
          /\ NthEvent("callback", k, 1) = NthEvent("pull", k, 1) + 1

\* flatMap has emitted two elements for the first upstream element, none
\* for the second and two for the third
C33_Witness ==
    /\ pc = "done"
    /\ Len(it) = 3
    /\ CallbackSeq[1].ret = 2
    /\ CallbackSeq[2].ret = 0
    /\ CallbackSeq[3].ret = 2
    /\ Len(out) = 4

\* --------------------------------------------------------------- generate
\* the number of elements the consumer pulls from generate
MaxGenerate == 3

\* the states of generate: initialState and what iterate returns
GenerateStates == {1, 2}

\* what a resultSelector may return
SelectorResults == {10, 20}

\* the options of generate: condition and resultSelector are given or not
GenerateOptions ==
    [initialState : GenerateStates,
     condition : {"none", "user"},
     resultSelector : {"none", "user"}]

\* a missing condition taken for one that fails
ConditionResultsMissingFails(condition) ==
    IF condition = "none" THEN {FALSE} ELSE BOOLEAN

\* `options.condition?.(state, i) ?? true`
ConditionResults(condition) ==
    IF condition = "none" THEN {TRUE} ELSE BOOLEAN

\* `'resultSelector' in options ? options.resultSelector(state, i) : state`
SelectorResultsOf(resultSelector, state) ==
    IF resultSelector = "none" THEN {state} ELSE SelectorResults

OptionEvent(name, state, i, r) ==
    [ev |-> name, buf |-> -1, args |-> <<state, i>>, ret |-> r]

\* `generate(options)` is called; nothing runs before the first pull
generateInit ==
    /\ it = <<>>
    /\ pulled = 0
    /\ out = <<>>
    /\ pc = "start"
    /\ \E options \in GenerateOptions : closure = [op |-> "generate", options |-> options]
    /\ locals = [i |-> 0, state |-> closure.options.initialState]
    /\ trace = <<>>

\* what a pull does from the loop test on: the condition, then the yield
\* of the state or of what resultSelector makes of it, or the return
generateTest(state, i, before) ==
    \E r \in ConditionResults(closure.options.condition) :
       LET tested == before \o
               (IF closure.options.condition = "none" THEN <<>>
                ELSE <<OptionEvent("condition", state, i, BoolStr(r))>>)
       IN IF r
          THEN \E v \in SelectorResultsOf(closure.options.resultSelector, state) :
                  /\ trace' = trace \o tested \o
                        (IF closure.options.resultSelector = "none" THEN <<>>
                         ELSE <<OptionEvent("resultSelector", state, i, v)>>)
                        \o <<YieldEvent(-1, v)>>
                  /\ out' = Append(out, v)
                  /\ pc' = "yielded"
          ELSE /\ trace' = trace \o tested
               /\ out' = out
               /\ pc' = "done"

\* the first pull: `let i = 0; let state = options.initialState` and the
\* loop test
generateFirst ==
    /\ pc = "start"
    /\ generateTest(locals.state, locals.i, <<>>)
    /\ UNCHANGED <<it, pulled, closure, locals>>

\* a later pull: `state = options.iterate(state, i); i += 1` and the loop test
generateNext ==
    /\ pc = "yielded"
    /\ Len(out) < MaxGenerate
    /\ \E state \in GenerateStates :
          /\ generateTest(state, locals.i + 1,
                <<OptionEvent("iterate", locals.state, locals.i, state)>>)
          /\ locals' = [i |-> locals.i + 1, state |-> state]
    /\ UNCHANGED <<it, pulled, closure>>

generateNextStep ==
    \/ generateFirst
    \/ generateNext

SpecGenerate == generateInit /\ [][generateNextStep]_vars

\* the calls of one of the option functions, in the order they were made
OptionSeq(name) == SelectSeq(trace, LAMBDA e : e.ev = name)

\* state_k: the initial state, then what the k-th call of iterate returned
StateAt(k) ==
    IF k = 0 THEN closure.options.initialState ELSE OptionSeq("iterate")[k].ret

\* C34: generate evaluates condition(state_i, i) first in pull i (a missing
\* condition counts as true); if it holds, resultSelector(state_i, i) is
\* called once when given, and its result, else state_i, is yielded;
\* iterate(state_i, i) is called once, and only in the pull after element i;
\* the sequence ends with the first false condition, so m elements consumed
\* to the end have seen m + 1 condition calls and m iterate calls.
C34_Generate ==
    LET m == Len(out)
        conditions == OptionSeq("condition")
        selections == OptionSeq("resultSelector")
        iterations == OptionSeq("iterate")
        given == closure.options.condition # "none"
        selected == closure.options.resultSelector # "none"
    IN /\ pc = "start" => trace = <<>> /\ m = 0
       /\ pc = "yielded" => Len(iterations) = m - 1 /\ m >= 1
       /\ pc = "done" => Len(iterations) = m /\ given
       /\ Len(conditions) =
             IF ~given THEN 0 ELSE IF pc = "done" THEN m + 1 ELSE m
       /\ Len(selections) = IF selected THEN m ELSE 0
       /\ Cardinality(Events("yield")) = m
       /\ locals.i = Len(iterations)
       /\ locals.state = StateAt(Len(iterations))
       /\ \A k \in 1..Len(iterations) :
             /\ iterations[k].args = <<StateAt(k - 1), k - 1>>
             /\ NthEvent("yield", k, 1) < NthEvent("iterate", k, 1)
             /\ NthEvent("iterate", k, 1) = NthEvent("yield", k, 1) + 1
       /\ \A k \in 1..Len(conditions) :
             /\ conditions[k].args = <<StateAt(k - 1), k - 1>>
             /\ conditions[k].ret = "false" <=> (pc = "done" /\ k = m + 1)
             /\ k <= m => NthEvent("condition", k, 1) < NthEvent("yield", k, 1)
             /\ k > 1 => NthEvent("iterate", k - 1, 1) < NthEvent("condition", k, 1)
       /\ \A k \in 1..m :
             IF selected
             THEN /\ selections[k].args = <<StateAt(k - 1), k - 1>>
                  /\ out[k] = selections[k].ret
                  /\ NthEvent("resultSelector", k, 1) + 1 = NthEvent("yield", k, 1)
                  /\ given => NthEvent("condition", k, 1) < NthEvent("resultSelector", k, 1)
             ELSE out[k] = StateAt(k - 1)

\* a sequence of two elements made with a condition and a resultSelector
\* was consumed to its end: three condition calls, two iterate calls
C34_Witness ==
    /\ pc = "done"
    /\ closure.options.condition = "user"
    /\ closure.options.resultSelector = "user"
    /\ Len(out) = 2
    /\ Len(OptionSeq("condition")) = 3
    /\ Len(OptionSeq("iterate")) = 2

\* without a condition the consumer has pulled MaxGenerate states
C34_EndlessReached ==
    /\ closure.options.condition = "none"
    /\ closure.options.resultSelector = "none"
    /\ Len(out) = MaxGenerate
    /\ Len(OptionSeq("iterate")) = MaxGenerate - 1

\* -------------------------------------------------------------------- zip
\* the largest number of inputs given to zip
MaxInputs == 3

\* longest input given to zip
MaxLenZip == 2

\* the elements of the inputs of zip
ZipValues == {1, 2}

ZipPullEvent(j, el) == [ev |-> "pull", buf |-> j, args |-> <<el>>, ret |-> "none"]

\* the iterators taken from the right
zipIteratorFromRight(values, j) == Len(values) - j

\* `for (const iterator of iterations)`: the iterator of pass j (0-based)
\* is the one of input j + 1
zipIterator(values, j) == j + 1

\* `zip(...values)` is called with at least one input; nothing runs before
\* the first pull
zipInit ==
    /\ it = <<>>
    /\ pulled = 0
    /\ out = <<>>
    /\ pc = "for"
    /\ \E m \in 1..MaxInputs :
       \E values \in [1..m -> SeqsUpTo(ZipValues, MaxLenZip)] :
          /\ closure = [op |-> "zip", values |-> values]
          /\ locals = [at |-> [j \in 1..m |-> 0], result |-> <<>>, j |-> 0]
    /\ trace = <<>>

\* one pass of `for (const iterator of iterations)`: `iterator.next()`, the
\* return when it is done, `result.push(next.value)` otherwise
zipNext ==
    /\ pc = "for"
    /\ locals.j < Len(closure.values)
    /\ LET n == zipIterator(closure.values, locals.j)
           input == closure.values[n]
       IN IF locals.at[n] >= Len(input)
          THEN /\ pc' = "done"
               /\ UNCHANGED <<pulled, locals, trace>>
          ELSE LET el == input[locals.at[n] + 1] IN
               /\ locals' = [locals EXCEPT
                     !.at[n] = @ + 1,
                     !.result = Append(@, el),
                     !.j = @ + 1]
               /\ trace' = Append(trace, ZipPullEvent(n, el))
               /\ pulled' = pulled + 1
               /\ pc' = pc
    /\ UNCHANGED <<it, out, closure>>

\* `yield result`, and on the next pull `const result = []` and a new round
zipYield ==
    /\ pc = "for"
    /\ locals.j = Len(closure.values)
    /\ out' = Append(out, locals.result)
    /\ trace' = Append(trace, YieldEvent(-1, locals.result))
    /\ locals' = [locals EXCEPT !.result = <<>>, !.j = 0]
    /\ UNCHANGED <<it, pulled, pc, closure>>

zipNextStep ==
    \/ zipNext
    \/ zipYield

SpecZip == zipInit /\ [][zipNextStep]_vars

\* the length of the shortest input
MinLength ==
    CHOOSE n \in 0..MaxLenZip + 1 :
       /\ \E j \in 1..Len(closure.values) : Len(closure.values[j]) = n
       /\ \A j \in 1..Len(closure.values) : Len(closure.values[j]) >= n

\* the leftmost of the shortest inputs: the first one found exhausted
FirstExhausted ==
    CHOOSE j \in 1..Len(closure.values) :
       /\ Len(closure.values[j]) = MinLength
       /\ \A h \in 1..(j - 1) : Len(closure.values[h]) > MinLength

\* C35: zip of m >= 1 inputs emits as many tuples as the shortest input has
\* elements, the i-th tuple holding the i-th element of every input in the
\* order of the inputs, and completes as soon as an input is exhausted;
\* inputs are pulled left to right in each round, so in the end every input
\* left of the first exhausted one has had one element pulled that is not
\* emitted.
C35_Zip ==
    LET m == Len(closure.values) IN
    /\ Len(out) <= MinLength
    /\ \A i \in 1..Len(out) : out[i] = [j \in 1..m |-> closure.values[j][i]]
    /\ Len(PullSeq) = pulled
    /\ \A p \in 1..pulled :
          /\ PullSeq[p].buf = ((p - 1) % m) + 1
          /\ PullSeq[p].args = <<closure.values[PullSeq[p].buf][((p - 1) \div m) + 1]>>
    /\ pc = "done" =>
          /\ Len(out) = MinLength
          /\ \A j \in 1..m :
                locals.at[j] = IF j < FirstExhausted THEN MinLength + 1 ELSE MinLength

\* zip of three inputs of which the last is the shortest has completed: the
\* first two have had a second element pulled
C35_Witness ==
    /\ pc = "done"
    /\ Len(closure.values) = 3
    /\ Len(closure.values[1]) = 2
    /\ Len(closure.values[2]) = 2
    /\ Len(closure.values[3]) = 1
    /\ closure.values[1] # closure.values[2]
    /\ locals.at = <<2, 2, 1>>
    /\ Len(out) = 1

\* ------------------------ buffer() and bufferToggle opened at index 0 only
\* an open function that returns true at index 0 and false everywhere else
OpenAtFirst(i) == IF i = 0 THEN "true" ELSE "false"

\* buffer() is applied to an upstream
sameBufferInit ==
    /\ bufferInit
    /\ closure.close = "never"

\* buffer() is through; bufferToggle(open) is applied to the same upstream,
\* read again from its start
sameBufferApply ==
    /\ pc = "done"
    /\ closure.op = "buffer"
    /\ closure' = [op |-> "bufferToggle", close |-> "never", buffered |-> out]
    /\ locals' = [buffers |-> <<>>, i |-> 0, j |-> 0, el |-> 0]
    /\ pulled' = 0
    /\ out' = <<>>
    /\ trace' = <<>>
    /\ pc' = "for"
    /\ UNCHANGED it

\* bufferToggle: the next element, `open(el, i)` and the push
sameBufferOpen ==
    /\ pc = "for"
    /\ closure.op = "bufferToggle"
    /\ pulled < Len(it)
    /\ LET el == it[pulled + 1]
           shouldOpen == OpenAtFirst(locals.i)
       IN /\ locals' = [locals EXCEPT
                  !.el = el,
                  !.j = 0,
                  !.buffers = IF shouldOpen # "false"
                              THEN PushBuffer(@, CloseOf(shouldOpen), locals.i)
                              ELSE @]
          /\ trace' = trace \o <<PullEvent(el), OpenEvent(el, locals.i, shouldOpen)>>
    /\ pulled' = pulled + 1
    /\ pc' = "inner"
    /\ UNCHANGED <<it, out, closure>>

sameBufferNextStep ==
    \/ closure.op = "buffer" /\ bufferNextStep
    \/ sameBufferApply
    \/ sameBufferOpen
    \/ closure.op = "bufferToggle" /\ bufferToggleInner
    \/ closure.op = "bufferToggle" /\ bufferToggleNext
    \/ closure.op = "bufferToggle" /\ bufferToggleExhausted
    \/ closure.op = "bufferToggle" /\ bufferToggleFlush
    \/ closure.op = "bufferToggle" /\ bufferToggleDone

SpecSameBuffer == sameBufferInit /\ [][sameBufferNextStep]_vars

C36_EmptyReached ==
    /\ closure.op = "bufferToggle"
    /\ pc = "done"
    /\ it = <<>>
    /\ out = <<>>

\* --------------------------------- buffer, bufferToggle: arrays as objects
\* longest upstream given to buffer and bufferToggle with arrays told apart
MaxLenArrays == 3

\* The arrays live in locals.heap, a sequence of their contents; an array is
\* its position in the heap.
\* `[]`: a new empty array
arrayNew(heap) == [heap |-> Append(heap, <<>>), array |-> Len(heap) + 1]

\* the element pushed onto the array itself
arrayPush(heap, a, el) == [heap |-> [heap EXCEPT ![a] = Append(@, el)], array |-> a]

\* `state.concat([el])`: a new array, the old one is left as it is
arrayConcat(heap, a, el) ==
    [heap |-> Append(heap, Append(heap[a], el)), array |-> Len(heap) + 1]

\* an array handed to a close predicate or to the consumer, with the
\* contents it has at that moment
ArrayCloseEvent(b, el, i, a, contents, r) ==
    [ev |-> "close", buf |-> b, args |-> <<el, i, a, contents>>, ret |-> BoolStr(r)]
ArrayYieldEvent(b, a, contents) ==
    [ev |-> "yield", buf |-> b, args |-> <<a, contents>>, ret |-> "none"]

\* buffer(close) or bufferToggle(open) is applied to an upstream
arraysInit ==
    /\ it \in SeqsUpTo(BufferValues, MaxLenArrays)
    /\ pulled = 0
    /\ out = <<>>
    /\ pc = "for"
    /\ \/ /\ closure = [op |-> "buffer", close |-> "user"]
          /\ locals = [heap |-> arrayNew(<<>>).heap, state |-> arrayNew(<<>>).array,
                       i |-> 0]
       \/ /\ closure = [op |-> "bufferToggle", close |-> "user"]
          /\ locals = [heap |-> <<>>, buffers |-> <<>>, i |-> 0, j |-> 0, el |-> 0]
    /\ trace = <<>>

\* buffer: one pass of `for (const el of it)`
arraysBufferStep ==
    /\ pc = "for"
    /\ closure.op = "buffer"
    /\ pulled < Len(it)
    /\ LET el == it[pulled + 1]
           grown == arrayConcat(locals.heap, locals.state, el)
           state == grown.array
           contents == grown.heap[state]
       IN \E r \in CloseResults(closure.close) :
             /\ trace' = trace \o
                   <<PullEvent(el), ArrayCloseEvent(-1, el, locals.i, state, contents, r)>>
                   \o (IF r THEN <<ArrayYieldEvent(-1, state, contents)>> ELSE <<>>)
             /\ out' = IF r THEN Append(out, state) ELSE out
             /\ locals' = IF r
                          THEN [heap |-> arrayNew(grown.heap).heap,
                                state |-> arrayNew(grown.heap).array,
                                i |-> locals.i + 1]
                          ELSE [heap |-> grown.heap, state |-> state,
                                i |-> locals.i + 1]
    /\ pulled' = pulled + 1
    /\ UNCHANGED <<it, pc, closure>>

\* buffer: upstream is exhausted, `if (state.length) yield state`
arraysBufferExhausted ==
    /\ pc = "for"
    /\ closure.op = "buffer"
    /\ pulled = Len(it)
    /\ IF bufferRemainder(locals.heap[locals.state])
       THEN /\ out' = Append(out, locals.state)
            /\ trace' = Append(trace,
                  ArrayYieldEvent(-1, locals.state, locals.heap[locals.state]))
       ELSE UNCHANGED <<out, trace>>
    /\ pc' = "done"
    /\ UNCHANGED <<it, pulled, closure, locals>>

\* bufferToggle: the next element, `open(el, i)` and
\* `buffers.push({ state: [], close })`
arraysToggleOpen ==
    /\ pc = "for"
    /\ closure.op = "bufferToggle"
    /\ pulled < Len(it)
    /\ LET el == it[pulled + 1]
           made == arrayNew(locals.heap)
       IN \E shouldOpen \in OpenResults :
          /\ locals' = IF shouldOpen # "false"
                       THEN [locals EXCEPT
                               !.el = el, !.j = 0, !.heap = made.heap,
                               !.buffers = Append(@,
                                   [state |-> made.array,
                                    close |-> CloseOf(shouldOpen),
                                    openedAt |-> locals.i])]
                       ELSE [locals EXCEPT !.el = el, !.j = 0]
          /\ trace' = trace \o <<PullEvent(el), OpenEvent(el, locals.i, shouldOpen)>>
    /\ pulled' = pulled + 1
    /\ pc' = "inner"
    /\ UNCHANGED <<it, out, closure>>

\* bufferToggle: one pass of `for (let j = 0; j < buffers.length; j++)`
arraysToggleInner ==
    /\ pc = "inner"
    /\ locals.j < Len(locals.buffers)
    /\ LET j == locals.j + 1
           subBuffer == locals.buffers[j]
       IN IF IsNull(subBuffer)
          THEN /\ locals' = [locals EXCEPT !.j = @ + 1]
               /\ UNCHANGED <<out, trace>>
          ELSE LET grown == arrayConcat(locals.heap, subBuffer.state, locals.el)
                   state == grown.array
                   contents == grown.heap[state]
               IN \E r \in CloseResults(subBuffer.close) :
                  /\ trace' = trace \o
                        <<ArrayCloseEvent(subBuffer.openedAt, locals.el, locals.i,
                                          state, contents, r)>>
                        \o (IF r
                            THEN <<ArrayYieldEvent(subBuffer.openedAt, state, contents)>>
                            ELSE <<>>)
                  /\ out' = IF r THEN Append(out, state) ELSE out
                  /\ locals' = [locals EXCEPT
                        !.j = @ + 1,
                        !.heap = grown.heap,
                        !.buffers = IF r THEN NullSlot([@ EXCEPT ![j].state = state], j)
                                    ELSE [@ EXCEPT ![j].state = state]]
    /\ UNCHANGED <<it, pulled, pc, closure>>

\* bufferToggle: one pass of the final loop
arraysToggleFlush ==
    /\ pc = "flush"
    /\ locals.j < Len(locals.buffers)
    /\ LET subBuffer == locals.buffers[locals.j + 1] IN
       IF IsNull(subBuffer)
       THEN UNCHANGED <<out, trace>>
       ELSE /\ out' = Append(out, subBuffer.state)
            /\ trace' = Append(trace,
                  ArrayYieldEvent(subBuffer.openedAt, subBuffer.state,
                                  locals.heap[subBuffer.state]))
    /\ locals' = [locals EXCEPT !.j = @ + 1]
    /\ UNCHANGED <<it, pulled, pc, closure>>

arraysNextStep ==
    \/ arraysBufferStep
    \/ arraysBufferExhausted
    \/ arraysToggleOpen
    \/ arraysToggleInner
    \/ closure.op = "bufferToggle" /\ bufferToggleNext
    \/ closure.op = "bufferToggle" /\ bufferToggleExhausted
    \/ arraysToggleFlush
    \/ closure.op = "bufferToggle" /\ bufferToggleDone

SpecArrays == arraysInit /\ [][arraysNextStep]_vars

\* the array of a close or yield event, and the contents it had then
ArrayOf(e) == IF e.ev = "close" THEN e.args[3] ELSE e.args[1]
ContentsOf(e) == IF e.ev = "close" THEN e.args[4] ELSE e.args[2]

\* C37: buffers are extended by copying, never in place: an array that
\* buffer or bufferToggle has passed to a close predicate or emitted keeps
\* the contents it had at that moment, whatever is processed afterwards,
\* and no two emitted buffers are the same array.
C37_BuffersCopied ==
    /\ \A p \in Events("close") \cup Events("yield") :
          locals.heap[ArrayOf(trace[p])] = ContentsOf(trace[p])
    /\ \A p, q \in Events("yield") :
          p # q => ArrayOf(trace[p]) # ArrayOf(trace[q])
    /\ \A k \in 1..Len(out) : out[k] = ArrayOf(trace[NthEvent("yield", k, 1)])

\* bufferToggle has passed a buffer of one element to its close function,
\* has added two more elements to it and has emitted it at the end
C37_Witness ==
    /\ closure.op = "bufferToggle"
    /\ pc = "done"
    /\ Len(it) = 3
    /\ \E p \in Events("close"), q \in Events("yield") :
          /\ trace[p].buf = trace[q].buf
          /\ Len(ContentsOf(trace[p])) = 1
          /\ Len(ContentsOf(trace[q])) = 3
          /\ locals.heap[ArrayOf(trace[p])] = ContentsOf(trace[p])

\* buffer has emitted two buffers
C37_BufferReached ==
    /\ closure.op = "buffer"
    /\ pc = "done"
    /\ Len(out) = 2


\* ------------------------------------------- bufferToggle: the buffer queue
\* the n-th index (from 1) at which a buffer was opened, in creation order
NthOpened(n) == CHOOSE o \in OpenedAt : Cardinality({x \in OpenedAt : x < o}) = n - 1

\* the number of buffers that have left the queue
Dropped == Cardinality(OpenedAt) - Len(locals.buffers)

\* the buffers yielded so far, by the index that opened them
Emitted == {trace[p].buf : p \in Events("yield")}

\* C38: after each upstream element has been fully processed the queue is
\* empty or its first slot holds an open buffer; while the input is being
\* read the slots of the queue are, in creation order, the most recently
\* opened buffers, a non-null slot is a buffer opened and not yet emitted, a
\* null slot stands for an emitted buffer, and every buffer that has left the
\* queue was emitted: so the non-null slots are exactly the buffers opened
\* and not yet emitted.
C38_QueueInvariant ==
    /\ pc = "for" => locals.buffers = <<>> \/ ~IsNull(locals.buffers[1])
    /\ pc \in {"for", "inner"} =>
          /\ Dropped >= 0
          /\ \A n \in 1..Dropped : NthOpened(n) \in Emitted
          /\ \A k \in 1..Len(locals.buffers) :
                LET b == locals.buffers[k] IN
                IF IsNull(b)
                THEN NthOpened(Dropped + k) \in Emitted
                ELSE /\ b.openedAt = NthOpened(Dropped + k)
                     /\ b.openedAt \notin Emitted
          /\ OpenBuffers = OpenedAt \ Emitted

\* an element has been fully processed and the queue keeps a null placeholder
\* behind an open first buffer, after an earlier buffer has left the queue
C38_Witness ==
    /\ pc = "for"
    /\ Len(locals.buffers) >= 2
    /\ ~IsNull(locals.buffers[1])
    /\ \E k \in 2..Len(locals.buffers) : IsNull(locals.buffers[k])

\* several leading nulls were removed at once after an element
C38_BatchRemoved ==
    /\ pc = "for"
    /\ Dropped >= 2
    /\ locals.i = 2

====
